---- MODULE Spec2Model ----
(***************************************************************************)
(* One session of the tank voice assistant backend: the client channel     *)
(* (text input and interrupt signal), streaming perception, the brain      *)
(* worker, the TTS worker and the callback audio sink, joined by the       *)
(* queues of RuntimeContext and the shared interrupt_event; the           *)
(* SessionManager that creates and closes such sessions; and the tool     *)
(* loop of LLM.chat_stream inside one turn.                                *)
(*                                                                         *)
(* Every worker is a thread; an action is one step of one thread between   *)
(* two accesses to shared state.  Variables that only record what has      *)
(* happened (for stating properties) are listed under "history".           *)
(***************************************************************************)
EXTENDS Integers, Sequences, FiniteSets, TLC

(* ---- bounds of the model ---- *)
MaxInputs == 1         \* client text inputs per run
MaxTurns == 2          \* client text inputs per run that nothing interrupts
MaxToolCalls == 2      \* tool calls the provider asks for in one chat_stream
MaxIterations == 2     \* provider invocations in one chat_stream
MaxFramesQueue == 2    \* stands for FrameConfig.max_frames_queue = 400
MaxCommands == 2       \* text inputs per run when exit commands are among them
MaxBadMessages == 1    \* bad text frames the client sends per run
MaxPushes == 5         \* binary frames the client sends per run
MaxFrames == 3         \* audio frames the recognizer processes per run
MaxDeltas == 2         \* deltas the LLM provider yields per run
MaxChunks == 2         \* PCM chunks one TTS stream yields at most
MaxTriggers == 1       \* client interrupt signals per run
MaxChunkQueue == 2     \* capacity of audio_chunk_queue (scaled down)
MaxHistoryTurns == 1   \* largest max_conversation_history tried
MaxSessions == 2       \* Assistant objects constructed per run
MaxCalls == 2          \* registry calls each caller makes per run
MaxUtteranceQueue == 2 \* stands for the utterance queue's maxsize = 20
MaxUtterances == 6     \* utterances the segmenter produces per run

(* ---- values ---- *)
NoId == <<"none", 0>>
NoItem == [content |-> <<>>, turn |-> 0]
NoFrame == [text |-> "", is_final |-> FALSE]

\* session ids clients connect with, and the threads that call the registry
SessionIds == {"s1", "s2"}
Callers == {"t1", "t2"}
\* Assistant.start starts audio_input, audio_output and brain in turn
NumWorkers == 3
NoSession == 0
NewAssistant == [started |-> 0, shutdown |-> FALSE, joined |-> FALSE]

\* recognizer outputs: nothing, whitespace only, a word
AsrTexts == {"", " ", "x"}
\* keyboard texts that pass Assistant.process_input's blank filter
InputTexts == {"hi"}

\* (update_type, content) pairs a provider stream can yield
Deltas ==
    { <<"TEXT", <<"a">> >>, <<"TEXT", <<"b">> >>, <<"THOUGHT", <<"t">> >>,
      <<"TOOL_CALL", <<>> >>, <<"TOOL_RESULT", <<"r">> >> }

VARIABLES
    \* configuration (VoiceAssistantConfig) and what the LLM provider can yield
    max_conversation_history, speech_interrupt_enabled, provider_deltas,
    \* RuntimeContext and AudioOutput shared state
    interrupt_event, brain_input_queue, audio_output_queue, audio_chunk_queue,
    ui_queue, shutdown,
    \* Brain
    bpc, conversation_history, turn, full_response_text,
    ndeltas,              \* deltas yielded so far in the run
    \* TTSWorker
    tpc, item, chunk_count,
    \* websocket receive loop
    wpc, inputs, triggers,
    \* StreamingPerception
    ppc, last_text, interrupt_fired_for_current, current_msg_id, frame, frames,
    user_ids,
    \* history
    outcomes, audio_out_puts, chunk_pushed, client_pcm, tts_ended,
    stale_chunks, cut_reqs, hit_reqs, late_pcm, discarded, trig_in_turn, user_msgs,
    utterance, drains, tts_got, tts_how, history_log,
    bargeins, seen_text,
    \* SessionManager, the Assistant objects it holds, and its callers
    sessions, sess, nsess, callers, rpc, rid, rh, rold, rback, rids, rerr,
    calls, got,
    \* LLM.chat_stream: the tool loop of one turn
    lpc, llm_turn, working_messages, tool_calls_data, idx, tool_runs, updates,
    \* AudioInput frame queue fed by QueueAudioSource.push
    frames_queue, pushes, dropped_frames, taken_frames,
    \* the connection: Assistant.on_exit_request, the texts received, what
    \* process_input did for exit commands, the registry entry of the session
    has_on_exit, received, exit_trace, in_registry,
    \* the websocket: ready signals sent, ui_queue entries piped to the
    \* client so far, bad text frames received
    readies, ui_sent, bad_msgs,
    \* UtteranceSegmenter: the utterance queue it fills, where its handle
    \* is, and what became of the utterances it produced
    utterance_queue, spc, produced, seg_dropped, seg_taken

cfgVars == <<max_conversation_history, speech_interrupt_enabled,
             provider_deltas>>
brainVars == <<bpc, conversation_history, turn, full_response_text, ndeltas>>
ttsVars == <<tpc, item, chunk_count>>
wsVars == <<wpc, inputs, triggers>>
percVars == <<ppc, last_text, interrupt_fired_for_current, current_msg_id,
              frame, frames, user_ids>>
brainHist == <<outcomes, audio_out_puts, trig_in_turn>>
audioHist == <<chunk_pushed, client_pcm, tts_ended, late_pcm>>
trigHist == <<stale_chunks, cut_reqs, hit_reqs, discarded, drains>>
percHist == <<user_msgs, utterance>>
ttsHist == <<tts_got, tts_how>>
bargeHist == <<bargeins, seen_text>>

toolVars == <<lpc, llm_turn, working_messages, tool_calls_data, idx,
              tool_runs, updates>>

pipeVars == <<cfgVars, interrupt_event, brain_input_queue, audio_output_queue,
              audio_chunk_queue, ui_queue, shutdown, brainVars, ttsVars,
              wsVars, percVars, brainHist, audioHist, trigHist, percHist,
              ttsHist, history_log, bargeHist>>
ingestVars == <<frames_queue, pushes, dropped_frames, taken_frames>>
connVars == <<has_on_exit, received, exit_trace, in_registry>>
wireVars == <<readies, ui_sent, bad_msgs>>
segVars == <<utterance_queue, spc, produced, seg_dropped, seg_taken>>
ioVars == <<ingestVars, connVars, wireVars, segVars>>
sessVars == <<pipeVars, toolVars, ioVars>>
regVars == <<sessions, sess, nsess, callers, rpc, rid, rh, rold, rback, rids,
             rerr, calls, got>>

vars == <<sessVars, regVars, toolVars, ioVars>>

(* ---- helpers ---- *)
Range(s) == { s[i] : i \in DOMAIN s }

RECURSIVE Concat(_)
Concat(ss) == IF ss = <<>> THEN <<>> ELSE Head(ss) \o Concat(Tail(ss))

\* Python truthiness of "not text or not text.strip()"
IsBlank(text) == text = "" \/ text = " "

\* Python list slice lst[-n:] for n >= 0 (lst[-0:] is the whole list)
PySliceLast(lst, n) ==
    IF n = 0 \/ n >= Len(lst) THEN lst
    ELSE SubSeq(lst, Len(lst) - n + 1, Len(lst))

\* BrainInputEvent: the fields the model follows
BrainInputEvent(type, text) == [type |-> type, text |-> text]

SignalMessage(signal_type, id) ==
    [kind |-> "signal", tag |-> signal_type, msg_id |-> id,
     is_user |-> FALSE, is_final |-> TRUE, text |-> <<>>]

DisplayMessage(text, is_user, id, is_final, update_type) ==
    [kind |-> "display", tag |-> update_type, msg_id |-> id,
     is_user |-> is_user, is_final |-> is_final, text |-> text]

AssistantId(n) == <<"assistant", n>>
BrainErrId(n) == <<"brain_err", n>>
UserId(n) == <<"user", n>>

SystemRecord == [role |-> "system", content |-> <<"prompt">>]

(* ---- tools, tool calls and chat messages ---- *)
Tools == {"weather"}                 \* ToolManager.tools
ToolList == <<"weather">>            \* list(self.tools.keys())
ToolNames == {"weather", "nosuch"}   \* names a provider may ask for
ObjectArgs == "{\"q\": 1}"
BrokenArgs == "{\"q\""
ListArgs == "[1]"
ArgStrings == {ObjectArgs, BrokenArgs, ListArgs}
NoCallId == <<0, 0>>

Message(role, tool_call_id, name, content, tool_calls) ==
    [role |-> role, tool_call_id |-> tool_call_id, name |-> name,
     content |-> content, tool_calls |-> tool_calls]

UserMessage == Message("user", NoCallId, "", <<"hi">>, <<>>)

(* ---- initial state: a freshly started session ---- *)
StartedSessionWith(on_exit_request, receive_pc, stream_pc) ==
    /\ interrupt_event = FALSE
    /\ brain_input_queue = <<>>
    /\ audio_output_queue = <<>>
    /\ audio_chunk_queue = <<>>
    /\ ui_queue = <<>>
    /\ shutdown = FALSE
    /\ bpc = "idle"
    /\ conversation_history = <<SystemRecord>>
    /\ turn = 0
    /\ full_response_text = <<>>
    /\ ndeltas = 0
    /\ tpc = "idle"
    /\ item = NoItem
    /\ chunk_count = 0
    /\ wpc = receive_pc
    /\ inputs = 0
    /\ triggers = 0
    /\ ppc = "idle"
    /\ last_text = ""
    /\ interrupt_fired_for_current = FALSE
    /\ current_msg_id = NoId
    /\ frame = NoFrame
    /\ frames = 0
    /\ user_ids = 0
    /\ outcomes = <<>>
    /\ audio_out_puts = <<>>
    /\ chunk_pushed = <<>>
    /\ client_pcm = <<>>
    /\ tts_ended = <<>>
    /\ stale_chunks = {}
    /\ cut_reqs = {}
    /\ hit_reqs = {}
    /\ late_pcm = {}
    /\ discarded = {}
    /\ trig_in_turn = FALSE
    /\ user_msgs = <<>>
    /\ utterance = 1
    /\ drains = 0
    /\ tts_got = <<>>
    /\ tts_how = <<>>
    /\ history_log = <<>>
    /\ bargeins = <<>>
    /\ seen_text = FALSE
    /\ lpc = stream_pc
    /\ llm_turn = 0
    /\ working_messages = <<UserMessage>>
    /\ tool_calls_data = <<>>
    /\ idx = 1
    /\ tool_runs = <<>>
    /\ updates = <<>>
    /\ frames_queue = <<>>
    /\ pushes = 0
    /\ dropped_frames = {}
    /\ taken_frames = <<>>
    /\ sessions = [id \in SessionIds |-> NoSession]
    /\ sess = [h \in 1..MaxSessions |-> NewAssistant]
    /\ nsess = 0
    /\ rpc = [t \in Callers |-> "idle"]
    /\ rid = [t \in Callers |-> "s1"]
    /\ rh = [t \in Callers |-> NoSession]
    /\ rold = [t \in Callers |-> NoSession]
    /\ rback = [t \in Callers |-> "ret"]
    /\ rids = [t \in Callers |-> <<>>]
    /\ rerr = [t \in Callers |-> FALSE]
    /\ calls = [t \in Callers |-> 0]
    /\ got = <<>>
    /\ has_on_exit = on_exit_request
    /\ received = <<>>
    /\ exit_trace = <<>>
    /\ in_registry = TRUE
    /\ readies = IF receive_pc = "accept" THEN 0 ELSE 1
    /\ ui_sent = 0
    /\ bad_msgs = 0
    /\ utterance_queue = <<>>
    /\ spc = "idle"
    /\ produced = 0
    /\ seg_dropped = {}
    /\ seg_taken = <<>>

\* a session whose LLM.chat_stream has been called with one user message
StartedSession(on_exit_request, receive_pc) ==
    StartedSessionWith(on_exit_request, receive_pc, "create")

\* SessionManager.create_assistant passes no on_exit_request; the handshake
\* is over and the endpoint is in its receive loop
Started == StartedSession(FALSE, "recv")

Init ==
    /\ max_conversation_history \in 0..MaxHistoryTurns
    /\ speech_interrupt_enabled \in BOOLEAN
    /\ provider_deltas = Deltas
    /\ callers = {}
    /\ Started

(* ======================= AudioOutput.interrupt ========================= *)
\* requests whose PCM is on its way to the client
InDelivery ==
    { c.req : c \in { d \in Range(audio_chunk_queue) : ~d.end } }
        \cup (IF tpc \in {"gen", "put"} /\ chunk_count > 0
              THEN {item.turn} ELSE {})

\* the request TTSWorker.handle is working on, and where handle is
InHandling ==
    IF tpc \in {"clear", "gen", "put"}
    THEN {[req |-> item.turn,
           at |-> IF tpc = "clear" THEN "pending" ELSE "streaming"]}
    ELSE {}

\* the requests waiting on the audio-output queue
InQueue ==
    { [req |-> r.turn, at |-> "pending"] : r \in Range(audio_output_queue) }

\* what the triggers found, without the entries of the requests rs, which
\* are finished or discarded
Forget(rs) == { h \in hit_reqs : h.req \notin rs }

\* self._runtime.interrupt_event.set()
InterruptSet ==
    /\ interrupt_event' = TRUE
    /\ stale_chunks' =
           stale_chunks \cup { c \in Range(audio_chunk_queue) : ~c.end }
    /\ cut_reqs' = cut_reqs \cup InDelivery
    /\ hit_reqs' = hit_reqs \cup InHandling \cup InQueue
    /\ trig_in_turn' = (trig_in_turn \/ bpc # "idle")

\* variant: interrupt() leaves the pending requests in the queue
InterruptDrainNothing ==
    /\ audio_output_queue' = audio_output_queue
    /\ hit_reqs' = hit_reqs
    /\ discarded' = discarded
    /\ drains' = drains + 1

\* with audio_output_queue.mutex: audio_output_queue.queue.clear()
InterruptDrain ==
    /\ audio_output_queue' = <<>>
    /\ hit_reqs' = Forget({ r.turn : r \in Range(audio_output_queue) })
    /\ discarded' = discarded \cup { r.turn : r \in Range(audio_output_queue) }
    /\ drains' = drains + 1

(* ========================= websocket receive loop ====================== *)
\* {type: "input"}: Assistant.process_input puts a BrainInputEvent
ClientInputUpTo(n) ==
    /\ wpc = "recv" /\ ~shutdown /\ inputs < n
    /\ \E text \in InputTexts :
           brain_input_queue' = Append(brain_input_queue, BrainInputEvent("TEXT", text))
    /\ inputs' = inputs + 1
    /\ UNCHANGED <<cfgVars, interrupt_event, audio_output_queue,
                   audio_chunk_queue, ui_queue, shutdown, brainVars, ttsVars,
                   wpc, triggers, percVars, brainHist, audioHist, trigHist,
                   percHist,
                   ttsHist, history_log, bargeHist, regVars, toolVars, ioVars>>

ClientInput == ClientInputUpTo(MaxInputs)

\* {type: "signal", content: "interrupt"}: first half of interrupt()
ClientInterrupt ==
    /\ wpc = "recv" /\ ~shutdown /\ triggers < MaxTriggers
    /\ InterruptSet
    /\ wpc' = "drain"
    /\ triggers' = triggers + 1
    /\ UNCHANGED <<cfgVars, brain_input_queue, audio_output_queue,
                   audio_chunk_queue, ui_queue, shutdown, brainVars, ttsVars,
                   inputs, percVars, outcomes, audio_out_puts, audioHist,
                   discarded, drains, percHist,
                   ttsHist, history_log, bargeHist, regVars, toolVars, ioVars>>

\* second half of interrupt(): the queue is cleared under its mutex
ClientInterruptDrain ==
    /\ wpc = "drain"
    /\ InterruptDrain
    /\ wpc' = "recv"
    /\ UNCHANGED <<cfgVars, interrupt_event, brain_input_queue,
                   audio_chunk_queue, ui_queue, shutdown, brainVars, ttsVars,
                   inputs, triggers, percVars, brainHist, audioHist,
                   stale_chunks, cut_reqs, percHist,
                   ttsHist, history_log, bargeHist, regVars, toolVars, ioVars>>

\* the connection ends: SessionManager.close_session -> Assistant.stop
CloseSession ==
    /\ wpc = "recv" /\ ~shutdown
    /\ shutdown' = TRUE
    /\ UNCHANGED <<cfgVars, interrupt_event, brain_input_queue,
                   audio_output_queue, audio_chunk_queue, ui_queue, brainVars,
                   ttsVars, wsVars, percVars, brainHist, audioHist, trigHist,
                   percHist,
                   ttsHist, history_log, bargeHist, regVars, toolVars, ioVars>>

(* ======================= Assistant.process_input ======================= *)
ExitCommands == {"quit", "exit"}
CommandTexts == {"hi", "quit", "exit", "QUIT", "quit ", " "}

\* str.lower on the texts a client may send
Lower(text) == IF text = "QUIT" THEN "quit" ELSE text

ExitStep(n, did) == [input |-> n, did |-> did]

\* {type: "input"}: process_input(msg.content) up to speaker.interrupt()'s
\* interrupt_event.set(), or up to its return for other texts
ClientCommand ==
    /\ wpc = "recv" /\ Len(received) < MaxCommands
    /\ \E text \in CommandTexts :
           /\ received' = Append(received, text)
           /\ IF IsBlank(text)
              THEN UNCHANGED <<brain_input_queue, interrupt_event, stale_chunks,
                               cut_reqs, hit_reqs, trig_in_turn, wpc, exit_trace>>
              ELSE IF Lower(text) \in ExitCommands
              THEN /\ InterruptSet
                   /\ wpc' = "quit_drain"
                   /\ exit_trace' =
                          Append(exit_trace,
                                 ExitStep(Len(received) + 1, "interrupt"))
                   /\ UNCHANGED brain_input_queue
              ELSE /\ brain_input_queue' =
                          Append(brain_input_queue, BrainInputEvent("TEXT", text))
                   /\ UNCHANGED <<interrupt_event, stale_chunks, cut_reqs, hit_reqs,
                                   trig_in_turn, wpc, exit_trace>>
    /\ UNCHANGED <<cfgVars, audio_output_queue, audio_chunk_queue, ui_queue,
                   shutdown, brainVars, ttsVars, inputs, triggers, percVars,
                   outcomes, audio_out_puts, audioHist, discarded, drains,
                   percHist, ttsHist, history_log, bargeHist, regVars,
                   toolVars, segVars, ingestVars, wireVars, has_on_exit, in_registry>>

\* speaker.interrupt(), second half: the queue is cleared under its mutex
QuitDrain ==
    /\ wpc = "quit_drain"
    /\ InterruptDrain
    /\ wpc' = "quit_stop"
    /\ UNCHANGED <<cfgVars, interrupt_event, brain_input_queue,
                   audio_chunk_queue, ui_queue, shutdown, brainVars, ttsVars,
                   inputs, triggers, percVars, brainHist, audioHist,
                   stale_chunks, cut_reqs, percHist,
                   ttsHist, history_log, bargeHist, regVars, toolVars, ioVars>>

\* variant: the exit branch does not return and the text is enqueued too
QuitStopFallsThrough ==
    /\ wpc = "quit_stop"
    /\ shutdown' = TRUE
    /\ exit_trace' =
           exit_trace \o <<ExitStep(Len(received), "stop")>> \o
           (IF has_on_exit THEN <<ExitStep(Len(received), "on_exit")>>
            ELSE <<>>)
    /\ brain_input_queue' =
           Append(brain_input_queue, BrainInputEvent("TEXT", received[Len(received)]))
    /\ wpc' = "recv"
    /\ UNCHANGED <<cfgVars, interrupt_event,
                   audio_output_queue, audio_chunk_queue, ui_queue, brainVars,
                   ttsVars, inputs, triggers, percVars, brainHist, audioHist,
                   trigHist, percHist, ttsHist, history_log, bargeHist,
                   regVars, toolVars, segVars, ingestVars, wireVars, has_on_exit,
                   received, in_registry>>

\* shutdown_signal.stop(); on_exit_request() if there is one; return
QuitStop ==
    /\ wpc = "quit_stop"
    /\ shutdown' = TRUE
    /\ exit_trace' =
           exit_trace \o <<ExitStep(Len(received), "stop")>> \o
           (IF has_on_exit THEN <<ExitStep(Len(received), "on_exit")>>
            ELSE <<>>)
    /\ wpc' = "recv"
    /\ UNCHANGED <<cfgVars, interrupt_event, brain_input_queue,
                   audio_output_queue, audio_chunk_queue, ui_queue, brainVars,
                   ttsVars, inputs, triggers, percVars, brainHist, audioHist,
                   trigHist, percHist, ttsHist, history_log, bargeHist,
                   regVars, toolVars, segVars, ingestVars, wireVars, has_on_exit,
                   received, in_registry>>

\* WebSocketDisconnect; finally: session_manager.close_session(session_id)
\* pops the registry entry and stops the assistant
Disconnect ==
    /\ wpc = "recv"
    /\ in_registry' = FALSE
    /\ shutdown' = TRUE
    /\ wpc' = "closed"
    /\ UNCHANGED <<cfgVars, interrupt_event, brain_input_queue,
                   audio_output_queue, audio_chunk_queue, ui_queue, brainVars,
                   ttsVars, inputs, triggers, percVars, brainHist, audioHist,
                   trigHist, percHist, ttsHist, history_log, bargeHist,
                   regVars, toolVars, segVars, ingestVars, wireVars, has_on_exit,
                   received, exit_trace>>

(* ====================== websocket text frames ========================== *)
MessageTypes == {"signal", "transcript", "text", "update", "input"}

\* text frames a client should not send: not JSON, a type outside
\* MessageType, a signal other than "interrupt"
BadMessages ==
    { [json |-> FALSE, type |-> "", content |-> ""],
      [json |-> TRUE, type |-> "bogus", content |-> ""],
      [json |-> TRUE, type |-> "signal", content |-> "bogus"] }

\* json.loads(data["text"]) or WebsocketMessage(**msg_json) raises
HandlerRaises(m) == ~m.json \/ m.type \notin MessageTypes

\* "text" in data, for a bad frame: the parse raises into `except Exception`
\* and `finally` closes the session, or the message matches no branch
ClientBadMessage ==
    /\ wpc = "recv" /\ bad_msgs < MaxBadMessages
    /\ bad_msgs' = bad_msgs + 1
    /\ \E m \in BadMessages :
           IF HandlerRaises(m)
           THEN /\ in_registry' = FALSE
                /\ shutdown' = TRUE
                /\ wpc' = "closed"
           ELSE UNCHANGED <<in_registry, shutdown, wpc>>
    /\ UNCHANGED <<cfgVars, interrupt_event, brain_input_queue,
                   audio_output_queue, audio_chunk_queue, ui_queue, brainVars,
                   ttsVars, inputs, triggers, percVars, brainHist, audioHist,
                   trigHist, percHist, ttsHist, history_log, bargeHist,
                   regVars, toolVars, segVars, ingestVars, has_on_exit, received,
                   exit_trace, readies, ui_sent>>

(* ================================ Brain ================================ *)
AddToConversationHistory(history, role, content) ==
    LET appended == Append(history, [role |-> role, content |-> content])
        max_messages == max_conversation_history * 2 + 1
    IN  IF Len(appended) > max_messages
        THEN <<appended[1]>> \o PySliceLast(appended, max_messages - 1)
        ELSE appended

\* variant: every update type is accumulated into the spoken text
AccumulateAnyType(text, update_type, content) ==
    text \o content

\* full_response_text += content, for TEXT updates only
Accumulate(text, update_type, content) ==
    IF update_type = "TEXT" THEN text \o content ELSE text

\* variant: the interrupt flag is cleared before the blank check
BrainSkipBlankClears ==
    /\ bpc = "idle" /\ ~shutdown
    /\ brain_input_queue # <<>>
    /\ IsBlank(Head(brain_input_queue).text)
    /\ brain_input_queue' = Tail(brain_input_queue)
    /\ interrupt_event' = FALSE
    /\ UNCHANGED <<cfgVars, audio_output_queue,
                   audio_chunk_queue, ui_queue, shutdown, brainVars, ttsVars,
                   wsVars, percVars, brainHist, audioHist, trigHist, percHist,
                   ttsHist, history_log, bargeHist, regVars, toolVars, ioVars>>

\* QueueWorker.run gets an event; handle returns at once on blank text
BrainSkipBlank ==
    /\ bpc = "idle" /\ ~shutdown
    /\ brain_input_queue # <<>>
    /\ IsBlank(Head(brain_input_queue).text)
    /\ brain_input_queue' = Tail(brain_input_queue)
    /\ UNCHANGED <<cfgVars, interrupt_event, audio_output_queue,
                   audio_chunk_queue, ui_queue, shutdown, brainVars, ttsVars,
                   wsVars, percVars, brainHist, audioHist, trigHist, percHist,
                   ttsHist, history_log, bargeHist, regVars, toolVars, ioVars>>

\* handle, up to the processing_started signal
BrainStart ==
    /\ bpc = "idle" /\ ~shutdown
    /\ brain_input_queue # <<>>
    /\ ~IsBlank(Head(brain_input_queue).text)
    /\ brain_input_queue' = Tail(brain_input_queue)
    /\ interrupt_event' = FALSE
    /\ conversation_history' =
           AddToConversationHistory(conversation_history, "user",
                                    <<Head(brain_input_queue).text>>)
    /\ turn' = turn + 1
    /\ ui_queue' = Append(ui_queue,
                          SignalMessage("processing_started", AssistantId(turn + 1)))
    /\ full_response_text' = <<>>
    /\ bpc' = "stream"
    /\ trig_in_turn' = FALSE
    /\ history_log' = Append(history_log,
           [role |-> "user", content |-> <<Head(brain_input_queue).text>>])
    /\ UNCHANGED <<cfgVars, audio_output_queue, audio_chunk_queue, shutdown,
                   ndeltas, ttsVars, wsVars, percVars, outcomes, audio_out_puts,
                   audioHist, trigHist, percHist,
                   ttsHist, bargeHist, regVars, toolVars, ioVars>>

\* variant: every delta is put with an id of its own
BrainDeltaFreshId ==
    /\ bpc = "stream" /\ ndeltas < MaxDeltas
    /\ ~(speech_interrupt_enabled /\ interrupt_event)
    /\ \E d \in provider_deltas :
         /\ ui_queue' = Append(ui_queue,
                DisplayMessage(d[2], FALSE, <<"assistant", turn, ndeltas>>,
                               FALSE, d[1]))
         /\ full_response_text' = Accumulate(full_response_text, d[1], d[2])
    /\ ndeltas' = ndeltas + 1
    /\ UNCHANGED <<cfgVars, interrupt_event, brain_input_queue,
                   audio_output_queue, audio_chunk_queue, shutdown, bpc,
                   conversation_history, turn, ttsVars, wsVars, percVars,
                   brainHist, audioHist, trigHist, percHist,
                   ttsHist, history_log, bargeHist, regVars, toolVars, ioVars>>

\* the provider yields a delta and the interrupt flag is not observed set
BrainDelta ==
    /\ bpc = "stream" /\ ndeltas < MaxDeltas
    /\ ~(speech_interrupt_enabled /\ interrupt_event)
    /\ \E d \in provider_deltas :
         /\ ui_queue' = Append(ui_queue,
                DisplayMessage(d[2], FALSE, AssistantId(turn), FALSE, d[1]))
         /\ full_response_text' = Accumulate(full_response_text, d[1], d[2])
    /\ ndeltas' = ndeltas + 1
    /\ UNCHANGED <<cfgVars, interrupt_event, brain_input_queue,
                   audio_output_queue, audio_chunk_queue, shutdown, bpc,
                   conversation_history, turn, ttsVars, wsVars, percVars,
                   brainHist, audioHist, trigHist, percHist,
                   ttsHist, history_log, bargeHist, regVars, toolVars, ioVars>>

\* variant: the interrupted path stores the partial text in the history
BrainInterruptedKeepsPartial ==
    /\ bpc = "stream" /\ ndeltas < MaxDeltas
    /\ speech_interrupt_enabled /\ interrupt_event
    /\ ui_queue' = Append(ui_queue,
                          DisplayMessage(<<>>, FALSE, AssistantId(turn), TRUE, "TEXT"))
    /\ conversation_history' =
           AddToConversationHistory(conversation_history, "assistant",
                                    full_response_text)
    /\ outcomes' = Append(outcomes, "interrupted")
    /\ bpc' = "finally"
    /\ UNCHANGED <<cfgVars, interrupt_event, brain_input_queue,
                   audio_output_queue, audio_chunk_queue, shutdown,
                   turn, full_response_text, ndeltas,
                   ttsVars, wsVars, percVars, audio_out_puts, trig_in_turn,
                   audioHist, trigHist, percHist,
                   ttsHist, history_log, bargeHist, regVars, toolVars, ioVars>>

\* the provider yields a delta, the flag is set: BrainInterrupted is raised
\* and handle's except clause closes the assistant block
BrainInterrupted ==
    /\ bpc = "stream" /\ ndeltas < MaxDeltas
    /\ speech_interrupt_enabled /\ interrupt_event
    /\ ui_queue' = Append(ui_queue,
                          DisplayMessage(<<>>, FALSE, AssistantId(turn), TRUE, "TEXT"))
    /\ outcomes' = Append(outcomes, "interrupted")
    /\ bpc' = "finally"
    /\ UNCHANGED <<cfgVars, interrupt_event, brain_input_queue,
                   audio_output_queue, audio_chunk_queue, shutdown,
                   conversation_history, turn, full_response_text, ndeltas,
                   ttsVars, wsVars, percVars, audio_out_puts, trig_in_turn,
                   audioHist, trigHist, percHist,
                   ttsHist, history_log, bargeHist, regVars, toolVars, ioVars>>

\* the provider stream ends: final message, history, TTS request
BrainStreamEnd ==
    /\ bpc = "stream"
    /\ ui_queue' = Append(ui_queue,
                          DisplayMessage(<<>>, FALSE, AssistantId(turn), TRUE, "TEXT"))
    /\ IF full_response_text # <<>>
       THEN /\ conversation_history' =
                   AddToConversationHistory(conversation_history, "assistant",
                                            full_response_text)
            /\ audio_output_queue' =
                   Append(audio_output_queue,
                          [content |-> full_response_text, turn |-> turn])
            /\ audio_out_puts' =
                   Append(audio_out_puts,
                          [content |-> full_response_text, turn |-> turn,
                           after_trigger |-> trig_in_turn,
                           after_tts_error |->
                               \E k \in DOMAIN tts_how :
                                   tts_how[k].how = "error"])
            /\ history_log' =
                   Append(history_log, [role |-> "assistant",
                                        content |-> full_response_text])
       ELSE UNCHANGED <<conversation_history, audio_output_queue,
                        audio_out_puts, history_log>>
    /\ outcomes' = Append(outcomes, "normal")
    /\ bpc' = "finally"
    /\ UNCHANGED <<cfgVars, interrupt_event, brain_input_queue,
                   audio_chunk_queue, shutdown, turn, full_response_text,
                   ndeltas, ttsVars, wsVars, percVars, trig_in_turn, audioHist,
                   trigHist, percHist, ttsHist, bargeHist, regVars, toolVars, ioVars>>

\* variant: the error path leaves handle without reaching the finally clause
BrainErrorSkipsEnded ==
    /\ bpc = "stream"
    /\ ui_queue' = Append(ui_queue,
                          DisplayMessage(<<"sorry">>, FALSE, BrainErrId(turn), TRUE, "TEXT"))
    /\ outcomes' = Append(outcomes, "error")
    /\ bpc' = "idle"
    /\ UNCHANGED <<cfgVars, interrupt_event, brain_input_queue,
                   audio_output_queue, audio_chunk_queue, shutdown,
                   conversation_history, turn, full_response_text, ndeltas,
                   ttsVars, wsVars, percVars, audio_out_puts, trig_in_turn,
                   audioHist, trigHist, percHist, ttsHist, history_log, bargeHist, regVars, toolVars, ioVars>>

\* variant: the error path also has the apology spoken
BrainErrorSpeaksApology ==
    /\ bpc = "stream"
    /\ ui_queue' = Append(ui_queue,
                          DisplayMessage(<<"sorry">>, FALSE, BrainErrId(turn), TRUE, "TEXT"))
    /\ audio_output_queue' =
           Append(audio_output_queue, [content |-> <<"sorry">>, turn |-> turn])
    /\ audio_out_puts' =
           Append(audio_out_puts,
                  [content |-> <<"sorry">>, turn |-> turn,
                   after_trigger |-> trig_in_turn,
                   after_tts_error |->
                       \E k \in DOMAIN tts_how : tts_how[k].how = "error"])
    /\ outcomes' = Append(outcomes, "error")
    /\ bpc' = "finally"
    /\ UNCHANGED <<cfgVars, interrupt_event, brain_input_queue,
                   audio_chunk_queue, shutdown,
                   conversation_history, turn, full_response_text, ndeltas,
                   ttsVars, wsVars, percVars, trig_in_turn,
                   audioHist, trigHist, percHist,
                   ttsHist, history_log, bargeHist, regVars, toolVars, ioVars>>

\* the provider (or the tool manifest) raises: apology with a fresh id
BrainError ==
    /\ bpc = "stream"
    /\ ui_queue' = Append(ui_queue,
                          DisplayMessage(<<"sorry">>, FALSE, BrainErrId(turn), TRUE, "TEXT"))
    /\ outcomes' = Append(outcomes, "error")
    /\ bpc' = "finally"
    /\ UNCHANGED <<cfgVars, interrupt_event, brain_input_queue,
                   audio_output_queue, audio_chunk_queue, shutdown,
                   conversation_history, turn, full_response_text, ndeltas,
                   ttsVars, wsVars, percVars, audio_out_puts, trig_in_turn,
                   audioHist, trigHist, percHist,
                   ttsHist, history_log, bargeHist, regVars, toolVars, ioVars>>

\* finally: processing_ended
BrainEnded ==
    /\ bpc = "finally"
    /\ ui_queue' = Append(ui_queue,
                          SignalMessage("processing_ended", AssistantId(turn)))
    /\ bpc' = "idle"
    /\ UNCHANGED <<cfgVars, interrupt_event, brain_input_queue,
                   audio_output_queue, audio_chunk_queue, shutdown,
                   conversation_history, turn, full_response_text, ndeltas,
                   ttsVars, wsVars, percVars, brainHist, audioHist, trigHist,
                   percHist,
                   ttsHist, history_log, bargeHist, regVars, toolVars, ioVars>>

(* ============================== TTSWorker ============================== *)
Chunk(req, seq) == [req |-> req, seq |-> seq, end |-> FALSE]
EndMarker(req) == [req |-> req, seq |-> 0, end |-> TRUE]

\* QueueWorker.run: item = input_queue.get(timeout)
TTSGet ==
    /\ tpc = "idle" /\ ~shutdown
    /\ audio_output_queue # <<>>
    /\ item' = Head(audio_output_queue)
    /\ audio_output_queue' = Tail(audio_output_queue)
    /\ tpc' = "clear"
    /\ tts_got' = Append(tts_got, Head(audio_output_queue).turn)
    /\ UNCHANGED <<cfgVars, interrupt_event, brain_input_queue,
                   audio_chunk_queue, ui_queue, shutdown, brainVars,
                   chunk_count, wsVars, percVars, brainHist, audioHist,
                   trigHist, percHist,
                   tts_how, history_log, bargeHist, regVars, toolVars, ioVars>>

\* variant: handle starts without clearing the flag
TTSKeepsFlag ==
    /\ tpc = "clear"
    /\ chunk_count' = 0
    /\ tpc' = "gen"
    /\ UNCHANGED <<cfgVars, interrupt_event, brain_input_queue,
                   audio_output_queue, audio_chunk_queue, ui_queue, shutdown,
                   brainVars, item, wsVars, percVars, brainHist, audioHist,
                   trigHist, percHist, ttsHist, history_log, bargeHist,
                   regVars, toolVars, ioVars>>

\* handle: interrupt_event.clear()
TTSClear ==
    /\ tpc = "clear"
    /\ interrupt_event' = FALSE
    /\ chunk_count' = 0
    /\ tpc' = "gen"
    /\ UNCHANGED <<cfgVars, brain_input_queue, audio_output_queue,
                   audio_chunk_queue, ui_queue, shutdown, brainVars, item,
                   wsVars, percVars, brainHist, audioHist, trigHist, percHist,
                   ttsHist, history_log, bargeHist, regVars, toolVars, ioVars>>

\* the stream yields a chunk and is_interrupted() is false
TTSYield ==
    /\ tpc = "gen" /\ chunk_count < MaxChunks
    /\ ~interrupt_event
    /\ tpc' = "put"
    /\ UNCHANGED <<cfgVars, interrupt_event, brain_input_queue,
                   audio_output_queue, audio_chunk_queue, ui_queue, shutdown,
                   brainVars, item, chunk_count, wsVars, percVars, brainHist,
                   audioHist, trigHist, percHist,
                   ttsHist, history_log, bargeHist, regVars, toolVars, ioVars>>

\* the stream yields a chunk and is_interrupted() is true: break
TTSInterrupted ==
    /\ tpc = "gen" /\ chunk_count < MaxChunks
    /\ interrupt_event
    /\ tpc' = "end"
    /\ tts_how' = Append(tts_how, [req |-> item.turn, how |-> "interrupted"])
    /\ UNCHANGED <<cfgVars, interrupt_event, brain_input_queue,
                   audio_output_queue, audio_chunk_queue, ui_queue, shutdown,
                   brainVars, item, chunk_count, wsVars, percVars, brainHist,
                   audioHist, trigHist, percHist,
                   tts_got, history_log, bargeHist, regVars, toolVars, ioVars>>

\* audio_chunk_queue.put(chunk): blocks while the queue is full
TTSPut ==
    /\ tpc = "put"
    /\ Len(audio_chunk_queue) < MaxChunkQueue
    /\ audio_chunk_queue' =
           Append(audio_chunk_queue, Chunk(item.turn, chunk_count + 1))
    /\ chunk_pushed' = Append(chunk_pushed, Chunk(item.turn, chunk_count + 1))
    /\ chunk_count' = chunk_count + 1
    /\ tpc' = "gen"
    /\ UNCHANGED <<cfgVars, interrupt_event, brain_input_queue,
                   audio_output_queue, ui_queue, shutdown, brainVars, item,
                   wsVars, percVars, brainHist, client_pcm, tts_ended,
                   late_pcm, trigHist, percHist,
                   ttsHist, history_log, bargeHist, regVars, toolVars, ioVars>>

\* the stream is exhausted
TTSStreamEnd ==
    /\ tpc = "gen"
    /\ tpc' = "end"
    /\ tts_how' = Append(tts_how, [req |-> item.turn, how |-> "normal"])
    /\ UNCHANGED <<cfgVars, interrupt_event, brain_input_queue,
                   audio_output_queue, audio_chunk_queue, ui_queue, shutdown,
                   brainVars, item, chunk_count, wsVars, percVars, brainHist,
                   audioHist, trigHist, percHist,
                   tts_got, history_log, bargeHist, regVars, toolVars, ioVars>>

\* generate_stream raises
TTSError ==
    /\ tpc = "gen"
    /\ tpc' = "end_err"
    /\ tts_how' = Append(tts_how, [req |-> item.turn, how |-> "error"])
    /\ UNCHANGED <<cfgVars, interrupt_event, brain_input_queue,
                   audio_output_queue, audio_chunk_queue, ui_queue, shutdown,
                   brainVars, item, chunk_count, wsVars, percVars, brainHist,
                   audioHist, trigHist, percHist,
                   tts_got, history_log, bargeHist, regVars, toolVars, ioVars>>

\* variant: the end marker is put after the loop instead of in a finally
\* clause, so a failing stream leaves none
TTSEndMarkerNotOnError ==
    /\ tpc \in {"end", "end_err"}
    /\ Len(audio_chunk_queue) < MaxChunkQueue
    /\ audio_chunk_queue' =
           IF tpc = "end_err" THEN audio_chunk_queue
           ELSE Append(audio_chunk_queue, EndMarker(item.turn))
    /\ chunk_pushed' =
           IF tpc = "end_err" THEN chunk_pushed
           ELSE Append(chunk_pushed, EndMarker(item.turn))
    /\ tpc' = IF tpc = "end_err" THEN "dead" ELSE "idle"
    /\ hit_reqs' = Forget({item.turn})
    /\ UNCHANGED <<cfgVars, interrupt_event, brain_input_queue,
                   audio_output_queue, ui_queue, shutdown, brainVars, item,
                   chunk_count, wsVars, percVars, brainHist, client_pcm,
                   tts_ended, late_pcm, stale_chunks, cut_reqs, discarded,
                   drains, percHist, ttsHist,
                   history_log, bargeHist, regVars, toolVars, ioVars>>

\* finally: audio_chunk_queue.put(None); after an error the exception leaves
\* handle and QueueWorker.run, which ends the thread
TTSEndMarker ==
    /\ tpc \in {"end", "end_err"}
    /\ Len(audio_chunk_queue) < MaxChunkQueue
    /\ audio_chunk_queue' = Append(audio_chunk_queue, EndMarker(item.turn))
    /\ chunk_pushed' = Append(chunk_pushed, EndMarker(item.turn))
    /\ tpc' = IF tpc = "end_err" THEN "dead" ELSE "idle"
    /\ hit_reqs' = Forget({item.turn})
    /\ UNCHANGED <<cfgVars, interrupt_event, brain_input_queue,
                   audio_output_queue, ui_queue, shutdown, brainVars, item,
                   chunk_count, wsVars, percVars, brainHist, client_pcm,
                   tts_ended, late_pcm, stale_chunks, cut_reqs, discarded,
                   drains, percHist,
                   ttsHist, history_log, bargeHist, regVars, toolVars, ioVars>>

(* ========================== CallbackAudioSink ========================== *)
\* variant: the sink hands over the newest queued chunk instead of the oldest
SinkChunkNewestFirst ==
    /\ ~shutdown
    /\ audio_chunk_queue # <<>>
    /\ ~audio_chunk_queue[Len(audio_chunk_queue)].end
    /\ audio_chunk_queue' =
           SubSeq(audio_chunk_queue, 1, Len(audio_chunk_queue) - 1)
    /\ client_pcm' =
           Append(client_pcm, audio_chunk_queue[Len(audio_chunk_queue)])
    /\ late_pcm' = late_pcm
    /\ UNCHANGED <<cfgVars, interrupt_event, brain_input_queue,
                   audio_output_queue, ui_queue, shutdown, brainVars, ttsVars,
                   wsVars, percVars, brainHist, chunk_pushed, tts_ended,
                   trigHist, percHist,
                   ttsHist, history_log, bargeHist, regVars, toolVars, ioVars>>

\* _run: a chunk is taken and handed to on_chunk (websocket.send_bytes)
SinkChunk ==
    /\ ~shutdown
    /\ audio_chunk_queue # <<>>
    /\ ~Head(audio_chunk_queue).end
    /\ audio_chunk_queue' = Tail(audio_chunk_queue)
    /\ client_pcm' = Append(client_pcm, Head(audio_chunk_queue))
    /\ late_pcm' = IF Head(audio_chunk_queue).req \in cut_reqs
                   THEN late_pcm \cup {Head(audio_chunk_queue)}
                   ELSE late_pcm
    /\ UNCHANGED <<cfgVars, interrupt_event, brain_input_queue,
                   audio_output_queue, ui_queue, shutdown, brainVars, ttsVars,
                   wsVars, percVars, brainHist, chunk_pushed, tts_ended,
                   trigHist, percHist,
                   ttsHist, history_log, bargeHist, regVars, toolVars, ioVars>>

\* variant: the sink swallows the end marker without calling on_stream_end
SinkStreamEndSilent ==
    /\ ~shutdown
    /\ audio_chunk_queue # <<>>
    /\ Head(audio_chunk_queue).end
    /\ audio_chunk_queue' = Tail(audio_chunk_queue)
    /\ UNCHANGED <<cfgVars, interrupt_event, brain_input_queue,
                   audio_output_queue, ui_queue, shutdown, brainVars, ttsVars,
                   wsVars, percVars, brainHist, audioHist, trigHist, percHist,
                   ttsHist, history_log, bargeHist, regVars, toolVars, ioVars>>

\* _run: None is taken and on_stream_end sends signal/tts_ended
SinkStreamEnd ==
    /\ ~shutdown
    /\ audio_chunk_queue # <<>>
    /\ Head(audio_chunk_queue).end
    /\ audio_chunk_queue' = Tail(audio_chunk_queue)
    /\ tts_ended' = Append(tts_ended, Head(audio_chunk_queue).req)
    /\ UNCHANGED <<cfgVars, interrupt_event, brain_input_queue,
                   audio_output_queue, ui_queue, shutdown, brainVars, ttsVars,
                   wsVars, percVars, brainHist, chunk_pushed, client_pcm,
                   late_pcm, trigHist, percHist,
                   ttsHist, history_log, bargeHist, regVars, toolVars, ioVars>>

(* ========================= StreamingPerception ========================= *)
\* variant: the message id outlives the endpoint
PerceptionEmitKeepsId(text, is_final, fired) ==
    LET emit == text # last_text \/ (is_final /\ text # "")
        put == emit /\ text # ""
        fresh == put /\ current_msg_id = NoId
        id == IF fresh THEN UserId(user_ids + 1) ELSE current_msg_id
    IN  /\ ui_queue' =
               IF put
               THEN Append(ui_queue, DisplayMessage(<<text>>, TRUE, id, is_final, "TEXT"))
               ELSE ui_queue
        /\ user_msgs' =
               IF put
               THEN Append(user_msgs, [utt |-> utterance, msg_id |-> id,
                                       is_final |-> is_final])
               ELSE user_msgs
        /\ user_ids' = IF fresh THEN user_ids + 1 ELSE user_ids
        /\ brain_input_queue' =
               IF is_final /\ text # ""
               THEN Append(brain_input_queue, BrainInputEvent("AUDIO", text))
               ELSE brain_input_queue
        /\ last_text' = IF is_final THEN "" ELSE IF emit THEN text ELSE last_text
        /\ interrupt_fired_for_current' = IF is_final THEN FALSE ELSE fired
        /\ current_msg_id' = id
        /\ utterance' = IF is_final THEN utterance + 1 ELSE utterance

\* variant: every non-empty text is put, changed or not
PerceptionEmitAlways(text, is_final, fired) ==
    LET put == text # ""
        fresh == put /\ current_msg_id = NoId
        id == IF fresh THEN UserId(user_ids + 1) ELSE current_msg_id
    IN  /\ ui_queue' =
               IF put
               THEN Append(ui_queue, DisplayMessage(<<text>>, TRUE, id, is_final, "TEXT"))
               ELSE ui_queue
        /\ user_msgs' =
               IF put
               THEN Append(user_msgs, [utt |-> utterance, msg_id |-> id,
                                       is_final |-> is_final])
               ELSE user_msgs
        /\ user_ids' = IF fresh THEN user_ids + 1 ELSE user_ids
        /\ brain_input_queue' =
               IF is_final /\ text # ""
               THEN Append(brain_input_queue, BrainInputEvent("AUDIO", text))
               ELSE brain_input_queue
        /\ last_text' = IF is_final THEN "" ELSE text
        /\ interrupt_fired_for_current' = IF is_final THEN FALSE ELSE fired
        /\ current_msg_id' = IF is_final THEN NoId ELSE id
        /\ utterance' = IF is_final THEN utterance + 1 ELSE utterance

\* variant: every non-empty text is handed to the brain, partials too
PerceptionEmitFeedsPartials(text, is_final, fired) ==
    LET emit == text # last_text \/ (is_final /\ text # "")
        put == emit /\ text # ""
        fresh == put /\ current_msg_id = NoId
        id == IF fresh THEN UserId(user_ids + 1) ELSE current_msg_id
    IN  /\ ui_queue' =
               IF put
               THEN Append(ui_queue, DisplayMessage(<<text>>, TRUE, id, is_final, "TEXT"))
               ELSE ui_queue
        /\ user_msgs' =
               IF put
               THEN Append(user_msgs, [utt |-> utterance, msg_id |-> id,
                                       is_final |-> is_final])
               ELSE user_msgs
        /\ user_ids' = IF fresh THEN user_ids + 1 ELSE user_ids
        /\ brain_input_queue' =
               IF text # ""
               THEN Append(brain_input_queue, BrainInputEvent("AUDIO", text))
               ELSE brain_input_queue
        /\ last_text' = IF is_final THEN "" ELSE IF emit THEN text ELSE last_text
        /\ interrupt_fired_for_current' = IF is_final THEN FALSE ELSE fired
        /\ current_msg_id' = IF is_final THEN NoId ELSE id
        /\ utterance' = IF is_final THEN utterance + 1 ELSE utterance

\* handle from "Only update if text has changed" to its end; fired is the
\* value of _interrupt_fired_for_current after the barge-in test
PerceptionEmit(text, is_final, fired) ==
    LET emit == text # last_text \/ (is_final /\ text # "")
        put == emit /\ text # ""
        fresh == put /\ current_msg_id = NoId
        id == IF fresh THEN UserId(user_ids + 1) ELSE current_msg_id
    IN  /\ ui_queue' =
               IF put
               THEN Append(ui_queue, DisplayMessage(<<text>>, TRUE, id, is_final, "TEXT"))
               ELSE ui_queue
        /\ user_msgs' =
               IF put
               THEN Append(user_msgs, [utt |-> utterance, msg_id |-> id,
                                       is_final |-> is_final])
               ELSE user_msgs
        /\ user_ids' = IF fresh THEN user_ids + 1 ELSE user_ids
        /\ brain_input_queue' =
               IF is_final /\ text # ""
               THEN Append(brain_input_queue, BrainInputEvent("AUDIO", text))
               ELSE brain_input_queue
        /\ last_text' = IF is_final THEN "" ELSE IF emit THEN text ELSE last_text
        /\ interrupt_fired_for_current' = IF is_final THEN FALSE ELSE fired
        /\ current_msg_id' = IF is_final THEN NoId ELSE id
        /\ utterance' = IF is_final THEN utterance + 1 ELSE utterance

\* a frame for which the barge-in callback is not invoked
PerceptionHandle ==
    /\ ppc = "idle" /\ ~shutdown /\ frames < MaxFrames
    /\ \E text \in AsrTexts, is_final \in BOOLEAN :
         /\ ~(text # "" /\ ~interrupt_fired_for_current)
         /\ PerceptionEmit(text, is_final, interrupt_fired_for_current)
         /\ seen_text' = (~is_final /\ (seen_text \/ text # ""))
    /\ frames' = frames + 1
    /\ UNCHANGED bargeins
    /\ UNCHANGED <<cfgVars, interrupt_event, audio_output_queue,
                   audio_chunk_queue, shutdown, brainVars, ttsVars, wsVars,
                   ppc, frame, brainHist, audioHist, trigHist,
                   ttsHist, history_log, regVars, toolVars, ioVars>>

\* first non-empty text of an utterance: the injected on_speech_interrupt
\* callable is entered (its body belongs to whoever injected it)
PerceptionBargeIn ==
    /\ ppc = "idle" /\ ~shutdown /\ frames < MaxFrames
    /\ ~interrupt_fired_for_current
    /\ \E text \in AsrTexts \ {""}, is_final \in BOOLEAN :
         /\ frame' = [text |-> text, is_final |-> is_final]
         /\ bargeins' = Append(bargeins, [utt |-> utterance, text |-> text,
                                          first |-> ~seen_text])
    /\ seen_text' = TRUE
    /\ ppc' = "callback"
    /\ frames' = frames + 1
    /\ UNCHANGED <<cfgVars, interrupt_event, brain_input_queue,
                   audio_output_queue, audio_chunk_queue, ui_queue, shutdown,
                   brainVars, ttsVars, wsVars, last_text,
                   interrupt_fired_for_current, current_msg_id, user_ids,
                   brainHist, audioHist, trigHist, percHist, ttsHist,
                   history_log, regVars, toolVars, ioVars>>

\* variant: the callback returns and the fired flag is not set
PerceptionBargeInDoneForgetsFired ==
    /\ ppc = "callback"
    /\ PerceptionEmit(frame.text, frame.is_final, FALSE)
    /\ seen_text' = ~frame.is_final
    /\ UNCHANGED bargeins
    /\ frame' = NoFrame
    /\ ppc' = "idle"
    /\ UNCHANGED <<cfgVars, interrupt_event, audio_output_queue,
                   audio_chunk_queue, shutdown, brainVars, ttsVars, wsVars,
                   frames, brainHist, audioHist, trigHist, ttsHist,
                   history_log, regVars, toolVars, ioVars>>

\* on_speech_interrupt() returns and handle runs to its end
PerceptionBargeInDone ==
    /\ ppc = "callback"
    /\ PerceptionEmit(frame.text, frame.is_final, TRUE)
    /\ seen_text' = ~frame.is_final
    /\ UNCHANGED bargeins
    /\ frame' = NoFrame
    /\ ppc' = "idle"
    /\ UNCHANGED <<cfgVars, interrupt_event, audio_output_queue,
                   audio_chunk_queue, shutdown, brainVars, ttsVars, wsVars,
                   frames, brainHist, audioHist, trigHist, ttsHist,
                   history_log, regVars, toolVars, ioVars>>

\* asr.process_pcm raises: the exception leaves handle and QueueWorker.run,
\* which ends the perception thread
PerceptionAsrError ==
    /\ ppc = "idle" /\ ~shutdown /\ frames < MaxFrames
    /\ ppc' = "dead"
    /\ frames' = frames + 1
    /\ UNCHANGED <<cfgVars, interrupt_event, brain_input_queue,
                   audio_output_queue, audio_chunk_queue, ui_queue, shutdown,
                   brainVars, ttsVars, wsVars, last_text,
                   interrupt_fired_for_current, current_msg_id, frame,
                   user_ids, brainHist, audioHist, trigHist, percHist,
                   ttsHist, history_log, bargeHist, regVars, toolVars, ioVars>>

(* ========================== LLM.chat_stream ============================ *)
\* json.loads on the argument strings a provider may send
JsonLoads(str) ==
    CASE str = ObjectArgs -> [ok |-> TRUE, mapping |-> TRUE, value |-> [q |-> 1]]
      [] str = ListArgs -> [ok |-> TRUE, mapping |-> FALSE, value |-> <<1>>]
      [] OTHER -> [ok |-> FALSE, mapping |-> FALSE, value |-> <<>>]

\* variant: execute_tool lets the tool's exception through
ExecuteToolNoCatch(tool_name, kwargs, tool_raises) ==
    IF tool_name \notin Tools
    THEN [raised |-> FALSE,
          value |-> [error |-> <<"not found", tool_name, ToolList>>,
                     available_tools |-> ToolList]]
    ELSE IF tool_raises
    THEN [raised |-> TRUE, value |-> [exc |-> "tool"]]
    ELSE [raised |-> FALSE, value |-> [result |-> "ok"]]

\* ToolManager.execute_tool: the dict it returns; it raises nothing
ExecuteTool(tool_name, kwargs, tool_raises) ==
    IF tool_name \notin Tools
    THEN [raised |-> FALSE,
          value |-> [error |-> <<"not found", tool_name, ToolList>>,
                     available_tools |-> ToolList]]
    ELSE IF tool_raises
    THEN [raised |-> FALSE,
          value |-> [error |-> <<"Error executing tool", tool_name>>,
                     tool_name |-> tool_name,
                     parameters |-> kwargs]]
    ELSE [raised |-> FALSE, value |-> [result |-> "ok"]]

\* ToolManager.execute_openai_tool_call; **arguments raises TypeError when
\* the parsed value is not a mapping
ExecuteOpenAIToolCall(tc, tool_raises) ==
    LET arguments == JsonLoads(tc.arguments) IN
    IF ~arguments.ok
    THEN [raised |-> FALSE,
          value |-> [error |-> <<"Could not parse arguments for", tc.name>>,
                     arguments |-> tc.arguments]]
    ELSE IF ~arguments.mapping
    THEN [raised |-> TRUE, value |-> [exc |-> "TypeError"]]
    ELSE ExecuteTool(tc.name, arguments.value, tool_raises)

\* str(result) and f"Error: {str(e)}"
ResultStr(result) == [prefix |-> "", body |-> result]
ErrorStr(e) == [prefix |-> "Error: ", body |-> e]

\* an iteration of `while True` from the MaxIterations-th on: the loop has
\* no exit but `break`, so the provider may ask for a tool again; turn is
\* no longer counted and the messages are no longer recorded
LLMCreatePast ==
    /\ lpc = "create" /\ llm_turn + 1 >= MaxIterations
    /\ llm_turn' = MaxIterations
    /\ \E pending \in BOOLEAN :
         /\ tool_calls_data' =
                IF pending
                THEN <<[id |-> <<MaxIterations, 1>>, name |-> "weather",
                        arguments |-> ObjectArgs]>>
                ELSE <<>>
         /\ lpc' = IF pending THEN "tools_past" ELSE "done"
    /\ idx' = 1
    /\ UNCHANGED <<pipeVars, regVars, ioVars, working_messages, tool_runs,
                   updates>>

\* the calls of such an iteration are executed, and `continue`
LLMExecutePast ==
    /\ lpc = "tools_past"
    /\ lpc' = "create"
    /\ UNCHANGED <<pipeVars, regVars, ioVars, llm_turn, working_messages,
                   tool_calls_data, idx, tool_runs, updates>>

\* messages.copy() of the brain's history, as chat_stream's message dicts
HistoryCopy ==
    [i \in DOMAIN conversation_history |->
        Message(conversation_history[i].role, NoCallId, "",
                conversation_history[i].content, <<>>)]

\* stream_task: gen = self._llm.chat_stream(messages=self._conversation_history)
\* and the generator's first statements
ChatStreamCall ==
    /\ bpc = "stream" /\ lpc = "closed"
    /\ working_messages' = HistoryCopy
    /\ llm_turn' = 0
    /\ tool_calls_data' = <<>>
    /\ idx' = 1
    /\ tool_runs' = <<>>
    /\ updates' = <<>>
    /\ lpc' = "create"
    /\ UNCHANGED <<pipeVars, regVars, ioVars>>

\* stream_task: finally: await gen.aclose()
ChatStreamClose ==
    /\ bpc = "finally" /\ lpc = "done"
    /\ lpc' = "closed"
    /\ UNCHANGED <<pipeVars, regVars, ioVars, llm_turn, working_messages,
                   tool_calls_data, idx, tool_runs, updates>>

\* one iteration of `while True`: the provider is invoked, its stream is
\* read, and the assistant message is appended
LLMCreate ==
    /\ lpc = "create" /\ llm_turn < MaxIterations
    /\ llm_turn' = llm_turn + 1
    /\ \E n \in 0..(IF llm_turn + 1 < MaxIterations
                   THEN MaxToolCalls - Len(tool_runs) ELSE 0) :
       \E asked \in [1..n -> ToolNames \X ArgStrings] :
           LET data == [k \in 1..n |->
                           [id |-> <<llm_turn + 1, k>>, name |-> asked[k][1],
                            arguments |-> asked[k][2]]]
           IN  /\ tool_calls_data' = data
               /\ working_messages' =
                      Append(working_messages,
                             Message("assistant", NoCallId, "", <<>>, data))
               /\ updates' = updates \o
                      [k \in 1..n |-> <<"TOOL_CALL", "calling", k>>]
               /\ lpc' = IF n > 0 THEN "tools" ELSE "done"
    /\ idx' = 1
    /\ UNCHANGED <<pipeVars, regVars, ioVars, tool_runs>>

\* the body of `for idx in sorted(tool_calls_data.keys())`, and `continue`
\* after the last call
LLMExecuteTool ==
    /\ lpc = "tools" /\ idx <= Len(tool_calls_data)
    /\ \E tool_raises \in BOOLEAN :
           LET tc == tool_calls_data[idx]
               r == ExecuteOpenAIToolCall(tc, tool_raises)
           IN  /\ working_messages' =
                      Append(working_messages,
                             Message("tool", tc.id, tc.name,
                                     IF r.raised THEN ErrorStr(r.value)
                                     ELSE ResultStr(r.value),
                                     <<>>))
               /\ updates' = updates \o
                      << <<"TOOL_CALL", "executing", idx>>,
                         <<"TOOL_RESULT",
                           IF r.raised THEN "error" ELSE "success", idx>> >>
               /\ tool_runs' =
                      Append(tool_runs,
                             [id |-> tc.id, name |-> tc.name,
                              arguments |-> tc.arguments,
                              tool_raises |-> tool_raises])
    /\ idx' = idx + 1
    /\ lpc' = IF idx = Len(tool_calls_data) THEN "create" ELSE "tools"
    /\ UNCHANGED <<pipeVars, regVars, ioVars, llm_turn, tool_calls_data>>

(* ========================== QueueAudioSource =========================== *)
PcmPayloads == {"p", "q"}
AudioFrame(n, pcm) == [n |-> n, pcm |-> pcm]

\* variant: a full queue makes room by discarding its oldest frame
PushEvictsOldest(f) ==
    /\ frames_queue' =
           IF Len(frames_queue) >= MaxFramesQueue
           THEN Append(Tail(frames_queue), f)
           ELSE Append(frames_queue, f)
    /\ dropped_frames' =
           IF Len(frames_queue) >= MaxFramesQueue
           THEN dropped_frames \cup {Head(frames_queue).n}
           ELSE dropped_frames

\* push: frames_queue.put_nowait(f); except queue.Full: warning
Push(f) ==
    /\ frames_queue' =
           IF Len(frames_queue) >= MaxFramesQueue
           THEN frames_queue
           ELSE Append(frames_queue, f)
    /\ dropped_frames' =
           IF Len(frames_queue) >= MaxFramesQueue
           THEN dropped_frames \cup {f.n}
           ELSE dropped_frames

\* receive loop, "bytes" in data: an AudioFrame is built and pushed
ClientAudio ==
    /\ wpc = "recv" /\ pushes < MaxPushes
    /\ \E pcm \in PcmPayloads : Push(AudioFrame(pushes + 1, pcm))
    /\ pushes' = pushes + 1
    /\ UNCHANGED <<pipeVars, regVars, toolVars, segVars, connVars, wireVars, taken_frames>>

\* QueueWorker.run of the perception thread: frames_queue.get(timeout);
\* what handle does with the frame is PerceptionHandle
FrameGet ==
    /\ ~shutdown /\ ppc = "idle"
    /\ frames_queue # <<>>
    /\ frames_queue' = Tail(frames_queue)
    /\ taken_frames' = Append(taken_frames, Head(frames_queue).n)
    /\ UNCHANGED <<pipeVars, regVars, toolVars, segVars, connVars, wireVars, pushes,
                   dropped_frames>>

(* ============================ SessionManager =========================== *)
\* a caller enters create_assistant(session_id)
RegCreateCall(t, id) ==
    /\ rpc[t] = "idle" /\ calls[t] < MaxCalls
    /\ rpc' = [rpc EXCEPT ![t] = "c_check"]
    /\ rid' = [rid EXCEPT ![t] = id]
    /\ rerr' = [rerr EXCEPT ![t] = FALSE]
    /\ calls' = [calls EXCEPT ![t] = @ + 1]
    /\ UNCHANGED <<sessVars, sessions, sess, nsess, callers, rh, rold, rback,
                   rids, got>>

\* variant: an existing session is overwritten without being closed
RegCreateCheckNoTeardown(t) ==
    /\ rpc[t] = "c_check"
    /\ rold' = [rold EXCEPT ![t] = sessions[rid[t]]]
    /\ rpc' = [rpc EXCEPT ![t] = "c_new"]
    /\ rback' = [rback EXCEPT ![t] = "c_new"]
    /\ UNCHANGED <<sessVars, sessions, sess, nsess, callers, rid, rh, rids,
                   rerr, calls, got>>

\* if session_id in self._sessions: self.close_session(session_id)
RegCreateCheck(t) ==
    /\ rpc[t] = "c_check"
    /\ rold' = [rold EXCEPT ![t] = sessions[rid[t]]]
    /\ rpc' = [rpc EXCEPT ![t] =
                  IF sessions[rid[t]] # NoSession THEN "pop" ELSE "c_new"]
    /\ rback' = [rback EXCEPT ![t] = "c_new"]
    /\ UNCHANGED <<sessVars, sessions, sess, nsess, callers, rid, rh, rids,
                   rerr, calls, got>>

\* assistant = Assistant(...); self._sessions[session_id] = assistant
RegCreateRegister(t) ==
    /\ rpc[t] = "c_new" /\ nsess < MaxSessions
    /\ nsess' = nsess + 1
    /\ rh' = [rh EXCEPT ![t] = nsess + 1]
    /\ sessions' = [sessions EXCEPT ![rid[t]] = nsess + 1]
    /\ rpc' = [rpc EXCEPT ![t] = "c_start"]
    /\ UNCHANGED <<sessVars, sess, callers, rid, rold, rback, rids, rerr,
                   calls, got>>

\* assistant.start(): one more of the session's workers is started
RegStartWorker(t) ==
    /\ rpc[t] = "c_start"
    /\ sess' = [sess EXCEPT ![rh[t]].started = @ + 1]
    /\ rpc' = [rpc EXCEPT ![t] =
                  IF sess[rh[t]].started + 1 = NumWorkers
                  THEN "c_ret" ELSE "c_start"]
    /\ UNCHANGED <<sessVars, sessions, nsess, callers, rid, rh, rold, rback,
                   rids, rerr, calls, got>>

\* a caller enters close_session(session_id)
RegCloseCall(t, id) ==
    /\ rpc[t] = "idle" /\ calls[t] < MaxCalls
    /\ rpc' = [rpc EXCEPT ![t] = "pop"]
    /\ rid' = [rid EXCEPT ![t] = id]
    /\ rback' = [rback EXCEPT ![t] = "ret"]
    /\ rerr' = [rerr EXCEPT ![t] = FALSE]
    /\ calls' = [calls EXCEPT ![t] = @ + 1]
    /\ UNCHANGED <<sessVars, sessions, sess, nsess, callers, rh, rold, rids,
                   got>>

\* close_session: assistant = self._sessions.pop(session_id, None)
RegPop(t) ==
    /\ rpc[t] = "pop"
    /\ rh' = [rh EXCEPT ![t] = sessions[rid[t]]]
    /\ sessions' = [sessions EXCEPT ![rid[t]] = NoSession]
    /\ rpc' = [rpc EXCEPT ![t] =
                  IF sessions[rid[t]] # NoSession THEN "stop" ELSE rback[t]]
    /\ UNCHANGED <<sessVars, sess, nsess, callers, rid, rold, rback, rids,
                   rerr, calls, got>>

\* Assistant.stop: self.shutdown_signal.stop()
RegStop(t) ==
    /\ rpc[t] = "stop"
    /\ sess' = [sess EXCEPT ![rh[t]].shutdown = TRUE]
    /\ rpc' = [rpc EXCEPT ![t] = "join"]
    /\ UNCHANGED <<sessVars, sessions, nsess, callers, rid, rh, rold, rback,
                   rids, rerr, calls, got>>

\* Assistant.stop: the joins return once every worker has exited
RegJoin(t) ==
    /\ rpc[t] = "join"
    /\ sess[rh[t]].started = NumWorkers
    /\ sess' = [sess EXCEPT ![rh[t]].joined = TRUE]
    /\ rpc' = [rpc EXCEPT ![t] = rback[t]]
    /\ UNCHANGED <<sessVars, sessions, nsess, callers, rid, rh, rold, rback,
                   rids, rerr, calls, got>>

\* Assistant.stop: Thread.join on a worker that was never started raises
\* RuntimeError, which leaves close_session and its caller
RegJoinRaises(t) ==
    /\ rpc[t] = "join"
    /\ sess[rh[t]].started < NumWorkers
    /\ rerr' = [rerr EXCEPT ![t] = TRUE]
    /\ rpc' = [rpc EXCEPT ![t] = "ret"]
    /\ UNCHANGED <<sessVars, sessions, sess, nsess, callers, rid, rh, rold,
                   rback, rids, calls, got>>

\* ids in the order list(self._sessions.keys()) gives them
KeysOf(map) ==
    (IF map["s1"] # NoSession THEN <<"s1">> ELSE <<>>)
        \o (IF map["s2"] # NoSession THEN <<"s2">> ELSE <<>>)

\* a caller enters close_all(): ids = list(self._sessions.keys())
RegCloseAllCall(t) ==
    /\ rpc[t] = "idle" /\ calls[t] < MaxCalls
    /\ rids' = [rids EXCEPT ![t] = KeysOf(sessions)]
    /\ rpc' = [rpc EXCEPT ![t] = "all_next"]
    /\ rerr' = [rerr EXCEPT ![t] = FALSE]
    /\ calls' = [calls EXCEPT ![t] = @ + 1]
    /\ UNCHANGED <<sessVars, sessions, sess, nsess, callers, rid, rh, rold,
                   rback, got>>

\* close_all: for sid in ids: self.close_session(sid)
RegCloseAllNext(t) ==
    /\ rpc[t] = "all_next"
    /\ IF rids[t] = <<>>
       THEN /\ rpc' = [rpc EXCEPT ![t] = "ret"]
            /\ UNCHANGED <<rid, rids, rback>>
       ELSE /\ rid' = [rid EXCEPT ![t] = Head(rids[t])]
            /\ rids' = [rids EXCEPT ![t] = Tail(rids[t])]
            /\ rback' = [rback EXCEPT ![t] = "all_next"]
            /\ rpc' = [rpc EXCEPT ![t] = "pop"]
    /\ UNCHANGED <<sessVars, sessions, sess, nsess, callers, rh, rold, rerr,
                   calls, got>>

\* get_assistant(session_id): return self._sessions.get(session_id)
RegGet(t, id) ==
    /\ rpc[t] = "idle" /\ calls[t] < MaxCalls
    /\ calls' = [calls EXCEPT ![t] = @ + 1]
    /\ got' = IF sessions[id] = NoSession THEN got
              ELSE Append(got, [h |-> sessions[id],
                                started |-> sess[sessions[id]].started])
    /\ UNCHANGED <<sessVars, sessions, sess, nsess, callers, rpc, rid, rh,
                   rold, rback, rids, rerr>>

\* the call returns to its caller
RegReturn(t) ==
    /\ rpc[t] \in {"c_ret", "ret"}
    /\ rpc' = [rpc EXCEPT ![t] = "idle"]
    /\ UNCHANGED <<sessVars, sessions, sess, nsess, callers, rid, rh, rold,
                   rback, rids, rerr, calls, got>>

(* ============================ specification ============================ *)
Next ==
    \/ ClientInput
    \/ ClientInterrupt
    \/ ClientInterruptDrain
    \/ CloseSession
    \/ BrainSkipBlank
    \/ BrainStart
    \/ BrainDelta
    \/ BrainInterrupted
    \/ BrainStreamEnd
    \/ BrainError
    \/ BrainEnded
    \/ TTSGet
    \/ TTSClear
    \/ TTSYield
    \/ TTSInterrupted
    \/ TTSPut
    \/ TTSStreamEnd
    \/ TTSError
    \/ TTSEndMarker
    \/ SinkChunk
    \/ SinkStreamEnd
    \/ PerceptionHandle
    \/ PerceptionBargeIn
    \/ PerceptionBargeInDone
    \/ PerceptionAsrError

Spec == Init /\ [][Next]_vars

\* The brain with the client channel that feeds and interrupts it.
NextBrain ==
    \/ ClientInput
    \/ ClientInterrupt
    \/ ClientInterruptDrain
    \/ BrainStart
    \/ BrainDelta
    \/ BrainInterrupted
    \/ BrainStreamEnd
    \/ BrainError
    \/ BrainEnded

InitBrain ==
    /\ max_conversation_history = MaxHistoryTurns
    /\ speech_interrupt_enabled \in BOOLEAN
    /\ provider_deltas = Deltas
    /\ callers = {}
    /\ Started

SpecBrain == InitBrain /\ [][NextBrain]_vars

\* The same workers with every admissible max_conversation_history and a
\* provider that yields one kind of text delta.
InitHistory ==
    /\ max_conversation_history \in 0..MaxHistoryTurns
    /\ speech_interrupt_enabled = TRUE
    /\ provider_deltas = { <<"TEXT", <<"a">> >> }
    /\ callers = {}
    /\ Started

SpecHistory == InitHistory /\ [][NextBrain]_vars

\* The audio output path fed by turns of a provider that yields one kind of
\* text delta, with the default barge-in setting.
InitAudio ==
    /\ max_conversation_history = MaxHistoryTurns
    /\ speech_interrupt_enabled = TRUE
    /\ provider_deltas = { <<"TEXT", <<"a">> >> }
    /\ callers = {}
    /\ Started

NextAudio ==
    \/ ClientInput
    \/ ClientInterrupt
    \/ ClientInterruptDrain
    \/ CloseSession
    \/ BrainStart
    \/ BrainDelta
    \/ BrainInterrupted
    \/ BrainStreamEnd
    \/ BrainEnded
    \/ TTSGet
    \/ TTSClear
    \/ TTSYield
    \/ TTSInterrupted
    \/ TTSPut
    \/ TTSStreamEnd
    \/ TTSError
    \/ TTSEndMarker
    \/ SinkChunk
    \/ SinkStreamEnd

SpecAudio == InitAudio /\ [][NextAudio]_vars

\* Perception alone: the recognizer's outputs are its only input.
NextPerception ==
    \/ PerceptionHandle
    \/ PerceptionBargeIn
    \/ PerceptionBargeInDone
    \/ PerceptionAsrError

SpecPerception == Init /\ [][NextPerception]_vars

(* =============================== properties ============================ *)
IsSignal(m, signal_type) == m.kind = "signal" /\ m.tag = signal_type
StartedAt(id) ==
    { i \in DOMAIN ui_queue :
        IsSignal(ui_queue[i], "processing_started") /\ ui_queue[i].msg_id = id }
EndedAt(id) ==
    { i \in DOMAIN ui_queue :
        IsSignal(ui_queue[i], "processing_ended") /\ ui_queue[i].msg_id = id }

\* C1: every non-blank event the brain handles yields exactly one
\* processing_started and exactly one processing_ended signal with the same
\* message id, the ended one after the started one, whether the turn ends
\* normally, by barge-in or by an error; no other such signal is emitted.
SignalPairing ==
    /\ \A n \in 1..turn :
          /\ Cardinality(StartedAt(AssistantId(n))) = 1
          /\ Cardinality(EndedAt(AssistantId(n))) =
                 (IF n < turn \/ bpc = "idle" THEN 1 ELSE 0)
          /\ \A e \in EndedAt(AssistantId(n)) :
                 \A b \in StartedAt(AssistantId(n)) : b < e
    /\ \A i \in DOMAIN ui_queue :
          ui_queue[i].kind = "signal" =>
              /\ ui_queue[i].tag \in {"processing_started", "processing_ended"}
              /\ ui_queue[i].msg_id \in { AssistantId(n) : n \in 1..turn }
    /\ Len(outcomes) = (IF bpc \in {"idle", "finally"} THEN turn ELSE turn - 1)

\* a turn cut short by barge-in has been closed
SignalPairingWitness ==
    /\ bpc = "idle" /\ turn >= 1
    /\ outcomes[turn] = "interrupted"
    /\ EndedAt(AssistantId(turn)) # {}

\* C2: with speech interruption enabled, a turn during which the interrupt
\* flag was set (after processing_started, before processing_ended) places
\* no TTSRequest on the audio-output queue.
NoTTSRequestAfterInterrupt ==
    speech_interrupt_enabled =>
        \A i \in DOMAIN audio_out_puts : ~audio_out_puts[i].after_trigger

TextDeltasOf(n) ==
    LET IsTextDelta(m) ==
            /\ m.kind = "display" /\ m.msg_id = AssistantId(n)
            /\ ~m.is_final /\ m.tag = "TEXT"
        sel == SelectSeq(ui_queue, IsTextDelta)
    IN  Concat([ j \in DOMAIN sel |-> sel[j].text ])

\* C3: a turn places at most one TTSRequest on the audio-output queue, only
\* once the provider stream has ended, never with empty content, and its
\* content is the concatenation, in order, of the turn's TEXT deltas.
TTSRequestIsCompletedText ==
    \A i \in DOMAIN audio_out_puts :
        LET p == audio_out_puts[i] IN
        /\ p.content # <<>>
        /\ p.content = TextDeltasOf(p.turn)
        /\ p.turn <= Len(outcomes) /\ outcomes[p.turn] = "normal"
        /\ \A j \in DOMAIN audio_out_puts :
               audio_out_puts[j].turn = p.turn => j = i

\* a two-delta answer mixed with nothing else has been sent to TTS
TTSRequestWitness ==
    \E i \in DOMAIN audio_out_puts :
        audio_out_puts[i].content = <<"b", "a">>

PendingChunksDiscardedOnInterrupt ==
    \A i \in DOMAIN client_pcm : client_pcm[i] \notin stale_chunks

\* C6: after the interrupt flag is set the sink forwards no further PCM
\* chunk of the response that was being delivered.
NoPcmAfterInterrupt ==
    late_pcm = {}

EndMarkersOf(r) ==
    { i \in DOMAIN chunk_pushed : chunk_pushed[i].req = r /\ chunk_pushed[i].end }
ChunksOf(r) ==
    { i \in DOMAIN chunk_pushed : chunk_pushed[i].req = r /\ ~chunk_pushed[i].end }
InHandle(r) == item.turn = r /\ tpc \notin {"idle", "dead"}

\* C7: for each TTSRequest the TTS worker dequeues it pushes exactly one
\* end-of-stream marker, after all of the request's PCM chunks, whether
\* synthesis completes, is cut short by the interrupt flag or raises.
EndMarkerDiscipline ==
    /\ \A i \in DOMAIN tts_got : \A j \in DOMAIN tts_got :
           tts_got[i] = tts_got[j] => i = j
    /\ \A r \in Range(tts_got) :
          /\ Cardinality(EndMarkersOf(r)) = (IF InHandle(r) THEN 0 ELSE 1)
          /\ \A e \in EndMarkersOf(r) : \A c \in ChunksOf(r) : c < e
    /\ \A i \in DOMAIN chunk_pushed : chunk_pushed[i].req \in Range(tts_got)

\* a stream cut short by the interrupt flag after a chunk has been closed
\* by its end marker
EndMarkerWitness ==
    \E i \in DOMAIN tts_how :
        /\ tts_how[i].how = "interrupted"
        /\ ChunksOf(tts_how[i].req) # {}
        /\ EndMarkersOf(tts_how[i].req) # {}

Count(s, x) == Cardinality({ i \in DOMAIN s : s[i] = x })

\* nothing is in flight on the audio path
AudioQuiescent ==
    /\ ~shutdown /\ wpc = "recv"
    /\ audio_output_queue = <<>> /\ audio_chunk_queue = <<>>
    /\ tpc \in {"idle", "dead"}

\* C8 as stated: every TTSRequest put on the audio-output queue, those an
\* interrupt finds pending included, gets exactly one tts_ended signal.
EveryEnqueuedRequestGetsTtsEnded ==
    /\ \A r \in Range(tts_ended) : Count(tts_ended, r) = 1
    /\ AudioQuiescent =>
          \A i \in DOMAIN audio_out_puts :
              Count(tts_ended, audio_out_puts[i].turn) = 1

\* C8 amended: every TTSRequest the TTS worker dequeues gets exactly one
\* tts_ended signal (once its end marker has passed the sink); a request an
\* interrupt removes from the audio-output queue gets none.
DequeuedRequestGetsOneTtsEnded ==
    /\ \A r \in Range(tts_ended) :
           Count(tts_ended, r) = 1 /\ r \in Range(tts_got)
    /\ \A r \in discarded : r \notin Range(tts_ended)
    /\ (~shutdown /\ audio_chunk_queue = <<>>) =>
          \A r \in Range(tts_got) : InHandle(r) \/ r \in Range(tts_ended)

\* a response that an interrupt cut short has been signalled as ended
TtsEndedAfterInterrupt ==
    \E r \in Range(tts_got) :
        r \in cut_reqs /\ Count(tts_ended, r) = 1

\* C9: with max_conversation_history = k the history never holds more
\* than 2k + 1 records, its first record is the system record, and the
\* records after it are the most recently appended ones, in order.
HistoryBound ==
    LET n == Len(conversation_history) - 1 IN
    /\ Len(conversation_history) <= 2 * max_conversation_history + 1
    /\ conversation_history[1] = SystemRecord
    /\ n <= Len(history_log)
    /\ Tail(conversation_history) =
           SubSeq(history_log, Len(history_log) - n + 1, Len(history_log))

\* C10: all user DisplayMessages perception emits for one utterance carry
\* the same message id, and messages of different utterances carry
\* different ids.
TranscriptIdStability ==
    \A i \in DOMAIN user_msgs : \A j \in DOMAIN user_msgs :
        (user_msgs[i].utt = user_msgs[j].utt)
            <=> (user_msgs[i].msg_id = user_msgs[j].msg_id)

\* a partial and a final of one utterance, then a message of the next
TranscriptIdWitness ==
    \E i \in DOMAIN user_msgs : \E j \in DOMAIN user_msgs :
        \E l \in DOMAIN user_msgs :
            /\ i < j /\ j < l
            /\ ~user_msgs[i].is_final /\ user_msgs[j].is_final
            /\ user_msgs[i].utt = user_msgs[j].utt
            /\ user_msgs[l].utt # user_msgs[j].utt

BargeInsOf(u) == { i \in DOMAIN bargeins : bargeins[i].utt = u }

\* C11: within one utterance the barge-in callback is invoked exactly
\* once, on the first frame whose recognized text is non-empty, however
\* many non-empty partials follow; it is invoked again only after an
\* endpoint has reset the utterance state.
BargeInOncePerUtterance ==
    /\ \A u \in 1..utterance : Cardinality(BargeInsOf(u)) <= 1
    /\ \A i \in DOMAIN bargeins :
          /\ bargeins[i].first /\ bargeins[i].text # ""
          /\ bargeins[i].utt <= utterance
    /\ seen_text <=> BargeInsOf(utterance) # {}
    /\ interrupt_fired_for_current => BargeInsOf(utterance) # {}

\* two non-empty frames of the first utterance with one callback, and a
\* second callback in the next utterance
BargeInWitness ==
    /\ Cardinality(BargeInsOf(1)) = 1 /\ Cardinality(BargeInsOf(2)) = 1
    /\ \E i \in DOMAIN user_msgs : \E j \in DOMAIN user_msgs :
          i < j /\ user_msgs[i].utt = 1 /\ user_msgs[j].utt = 1

\* the producer of id has moved past it: perception has passed the
\* utterance's endpoint, the brain has left the turn
ProducerDone(id) ==
    IF id[1] = "user" THEN current_msg_id # id
    ELSE id # AssistantId(turn) \/ bpc = "idle"

\* C12: every non-final DisplayMessage with id X on the UI queue is
\* followed, once its producer is done with X, by a final DisplayMessage
\* with id X or by the signal that ends the producer's work on X; also
\* when a non-empty partial is followed by an endpoint with empty text.
NonFinalGetsFinal ==
    \A i \in DOMAIN ui_queue :
        (/\ ui_queue[i].kind = "display" /\ ~ui_queue[i].is_final
         /\ ProducerDone(ui_queue[i].msg_id))
        => \E j \in DOMAIN ui_queue :
              /\ j > i /\ ui_queue[j].msg_id = ui_queue[i].msg_id
              /\ \/ ui_queue[j].kind = "display" /\ ui_queue[j].is_final
                 \/ IsSignal(ui_queue[j], "processing_ended")

(* ---- the registry called from one thread, as the router does ---- *)
InitRegistrySeq ==
    /\ max_conversation_history = MaxHistoryTurns
    /\ speech_interrupt_enabled = TRUE
    /\ provider_deltas = Deltas
    /\ callers = {"t1"}
    /\ Started

NextRegistrySeq ==
    \E t \in callers :
        \/ \E id \in SessionIds : RegCreateCall(t, id)
        \/ RegCreateCheck(t)
        \/ RegCreateRegister(t)
        \/ RegStartWorker(t)
        \/ \E id \in SessionIds : RegCloseCall(t, id)
        \/ RegPop(t)
        \/ RegStop(t)
        \/ RegJoin(t)
        \/ RegCloseAllCall(t)
        \/ RegCloseAllNext(t)
        \/ \E id \in SessionIds : RegGet(t, id)
        \/ RegReturn(t)

SpecRegistrySeq == InitRegistrySeq /\ [][NextRegistrySeq]_vars

(* ---- the registry called from several threads ---- *)
InitRegistry ==
    /\ max_conversation_history = MaxHistoryTurns
    /\ speech_interrupt_enabled = TRUE
    /\ provider_deltas = Deltas
    /\ callers = Callers
    /\ Started

NextRegistry ==
    \/ NextRegistrySeq
    \/ \E t \in callers : RegJoinRaises(t)

SpecRegistry == InitRegistry /\ [][NextRegistry]_vars

FullyStarted(h) == sess[h].started = NumWorkers /\ ~sess[h].shutdown
Running(h) == sess[h].started > 0 /\ ~sess[h].shutdown
InMap(h) == \E id \in SessionIds : sessions[id] = h

\* C13: a lookup that runs concurrently with create returns nothing or a
\* session all of whose workers have been started.
GetSeesStartedSession ==
    \A i \in DOMAIN got : got[i].started = NumWorkers

\* C14: create(id) for an id that is present first tears the old session
\* down (flag set, workers joined, entry removed) and only then starts the
\* new session's workers; when create returns the map holds the new
\* session with all its workers started.
CreateReplacesOldSession ==
    \A t \in callers :
        /\ (rpc[t] \in {"c_start", "c_ret"} /\ rold[t] # NoSession) =>
              /\ sess[rold[t]].shutdown /\ sess[rold[t]].joined
              /\ ~InMap(rold[t])
        /\ rpc[t] = "c_ret" =>
              sessions[rid[t]] = rh[t] /\ FullyStarted(rh[t])

\* create returns after replacing a session that was present
CreateReplacedWitness ==
    \E t \in callers : rpc[t] = "c_ret" /\ rold[t] # NoSession

\* C15: once every call of a concurrent mix of create, close and close_all
\* has returned, every session with running workers is in the map, every
\* session in the map is fully started, and none is half-started.
RegistryLinearizable ==
    (\A t \in callers : rpc[t] = "idle") =>
        \A h \in 1..nsess :
            /\ Running(h) => InMap(h)
            /\ InMap(h) => FullyStarted(h)
            /\ sess[h].started \in {0, NumWorkers}

(* ---- the audio pipeline with every thread scheduled again and again --- *)
BrainStep ==
    BrainStart \/ BrainDelta \/ BrainInterrupted \/ BrainStreamEnd \/ BrainEnded
TTSStep ==
    \/ TTSGet \/ TTSClear \/ TTSYield \/ TTSInterrupted \/ TTSPut
    \/ TTSStreamEnd \/ TTSError \/ TTSEndMarker
SinkStep == SinkChunk \/ SinkStreamEnd

SpecAudioFair ==
    /\ SpecAudio
    /\ WF_vars(BrainStep) /\ WF_vars(TTSStep) /\ WF_vars(SinkStep)

\* QueueWorker.run has left its loop: the stop signal is set and no item
\* is being handled
BrainExited == shutdown /\ bpc = "idle"
TTSExited == shutdown /\ tpc \in {"idle", "dead"}

\* C16: once the session's shutdown flag is set every worker eventually
\* exits (so that the joins of close return), also when the TTS worker is
\* pushing to a full audio-chunk queue or the brain is inside a turn.
WorkersExitAfterShutdown ==
    shutdown ~> (BrainExited /\ TTSExited)

(* ---- perception with its thread scheduled again and again ---- *)
SpecPerceptionFair == SpecPerception /\ WF_vars(NextPerception)

\* C17: when the recognizer raises on a frame, that frame is skipped and
\* the perception worker keeps consuming: all frames the source queues
\* are eventually handed to the recognizer.
AllFramesRecognized ==
    <>(frames = MaxFrames)

(* ---- the speech path with no interrupt and no shutdown ---- *)
ClientInputTurn == ClientInputUpTo(MaxTurns)

NextSpeech ==
    \/ ClientInputTurn
    \/ BrainStart
    \/ BrainDelta
    \/ BrainStreamEnd
    \/ BrainEnded
    \/ TTSGet
    \/ TTSClear
    \/ TTSYield
    \/ TTSPut
    \/ TTSStreamEnd
    \/ TTSError
    \/ TTSEndMarker
    \/ SinkChunk
    \/ SinkStreamEnd

SpecSpeech == InitAudio /\ [][NextSpeech]_vars

SpecSpeechFair ==
    /\ SpecSpeech
    /\ WF_vars(BrainStep) /\ WF_vars(TTSStep) /\ WF_vars(SinkStep)

\* C18: when the TTS provider stream raises while a request is processed,
\* only that request fails: the TTS worker stays alive, and every
\* TTSRequest enqueued after the failure is eventually dequeued by it.
RequestsAfterTtsErrorAreServed ==
    \A n \in 1..MaxTurns :
        [](((\E i \in DOMAIN audio_out_puts :
                 /\ audio_out_puts[i].turn = n
                 /\ audio_out_puts[i].after_tts_error)
            => <>(n \in Range(tts_got))))

(* ---- the brain over several turns, no barge-in ---- *)
NextTurns ==
    \/ ClientInputTurn
    \/ BrainStart
    \/ BrainDelta
    \/ BrainStreamEnd
    \/ BrainError
    \/ BrainEnded

SpecTurns == InitBrain /\ [][NextTurns]_vars

SpecTurnsFair == SpecTurns /\ WF_vars(BrainStep)

FinalMessagesOf(n) ==
    { i \in DOMAIN ui_queue :
        /\ ui_queue[i].kind = "display"
        /\ ui_queue[i].is_final /\ ~ui_queue[i].is_user
        /\ ui_queue[i].msg_id \in {AssistantId(n), BrainErrId(n)} }

\* position in history_log of the user record turn n appended
UserRecordOf(n) ==
    { i \in DOMAIN history_log :
        /\ history_log[i].role = "user"
        /\ Cardinality({ j \in 1..i : history_log[j].role = "user" }) = n }

ErrorTurn(n) == n <= Len(outcomes) /\ outcomes[n] = "error"

ErrorTurnApologizes ==
    \A n \in 1..turn :
        ErrorTurn(n) =>
            /\ Cardinality(FinalMessagesOf(n)) = 1
            /\ \A i \in FinalMessagesOf(n) :
                   /\ ui_queue[i].msg_id = BrainErrId(n)
                   /\ ui_queue[i].msg_id # AssistantId(n)
                   /\ ui_queue[i].text = <<"sorry">>
            /\ \A i \in DOMAIN audio_out_puts : audio_out_puts[i].turn # n
            /\ \A i \in UserRecordOf(n) :
                   i < Len(history_log) => history_log[i + 1].role # "assistant"
            /\ conversation_history[Len(conversation_history)].role = "assistant"
                   => \E m \in 1..turn : m # n /\ ~ErrorTurn(m)

\* C19: when the LLM provider raises during a turn, the brain emits exactly
\* one final DisplayMessage for the turn, the apology, under an id that is
\* not the turn's assistant id, enqueues no TTSRequest and appends no
\* assistant record for the turn, and then handles the next event waiting
\* in its queue.
ErrorTurnApologizesAndBrainGoesOn ==
    /\ []ErrorTurnApologizes
    /\ \A n \in 1..MaxTurns :
           (ErrorTurn(n) /\ inputs > n) ~> (turn > n)

\* a turn that failed after a text delta, and the next turn answered
ErrorTurnWitness ==
    /\ Len(outcomes) >= 2
    /\ outcomes[1] = "error" /\ outcomes[2] = "normal"
    /\ TextDeltasOf(1) # <<>>
    /\ bpc = "idle"

(* ---- the tool loop of one chat_stream ---- *)
NextTools ==
    \/ LLMCreate
    \/ LLMExecuteTool

SpecTools == Init /\ [][NextTools]_vars

ToolMessagesOf(id) ==
    { i \in DOMAIN working_messages :
        /\ working_messages[i].role = "tool"
        /\ working_messages[i].tool_call_id = id }

\* every call that was run has its one tool-role message, a structured
\* error when the call failed
ToolErrorsRecorded ==
    \A j \in DOMAIN tool_runs :
        LET e == tool_runs[j]
            parsed == JsonLoads(e.arguments)
        IN  /\ Cardinality(ToolMessagesOf(e.id)) = 1
            /\ \A i \in ToolMessagesOf(e.id) :
                   LET c == working_messages[i].content IN
                   /\ ~parsed.ok =>
                          /\ c.prefix = ""
                          /\ DOMAIN c.body = {"error", "arguments"}
                          /\ c.body.arguments = e.arguments
                   /\ (parsed.ok /\ parsed.mapping /\ e.name \notin Tools) =>
                          /\ c.prefix = ""
                          /\ DOMAIN c.body = {"error", "available_tools"}
                          /\ c.body.available_tools = ToolList
                   /\ (parsed.ok /\ parsed.mapping /\ e.name \in Tools
                          /\ e.tool_raises) =>
                          /\ c.prefix = ""
                          /\ DOMAIN c.body = {"error", "tool_name", "parameters"}
                          /\ c.body.tool_name = e.name
                          /\ c.body.parameters = parsed.value

\* every call the provider asked for has been run, or is still to be run
\* in the round in progress
PendingCallsRun ==
    \A i \in DOMAIN working_messages :
        \A k \in DOMAIN working_messages[i].tool_calls :
            \/ ToolMessagesOf(working_messages[i].tool_calls[k].id) # {}
            \/ /\ lpc = "tools" /\ k >= idx
               /\ working_messages[i].tool_calls = tool_calls_data

\* C20: a tool failure never aborts the turn: an unknown tool name, an
\* argument string that does not parse, or an exception raised by the tool
\* is recorded as a structured error in that call's tool-role message, the
\* remaining pending calls are still run, and the round of tool calls is
\* left only to invoke the provider again.
ToolFailureNeverAborts ==
    /\ [](ToolErrorsRecorded /\ PendingCallsRun)
    /\ [](lpc \in {"create", "tools", "done"})
    /\ [](lpc = "create" => llm_turn < MaxIterations)
    /\ [](lpc = "done" =>
             working_messages[Len(working_messages)].tool_calls = <<>>)
    /\ [][lpc = "tools" /\ lpc' # "tools" =>
             /\ lpc' = "create"
             /\ idx' > Len(tool_calls_data)]_vars
    /\ [][llm_turn' # llm_turn => llm_turn' = llm_turn + 1]_vars

\* a round whose first call fails in the tool and whose second call runs,
\* after which the provider was invoked again and ended the turn
ToolFailureWitness ==
    /\ lpc = "done" /\ llm_turn = 2
    /\ Len(tool_runs) = 2
    /\ tool_runs[1].name \in Tools /\ tool_runs[1].arguments = ObjectArgs
    /\ tool_runs[1].tool_raises
    /\ tool_runs[2].name \in Tools /\ tool_runs[2].arguments = ObjectArgs
    /\ ~tool_runs[2].tool_raises

(* ---- the frame queue between the client's audio and perception ---- *)
NextIngest ==
    \/ ClientAudio
    \/ FrameGet

SpecIngest == InitAudio /\ [][NextIngest]_vars

\* C21: push never blocks its caller; when the frame queue is at its bound
\* the incoming frame is dropped and the queued frames are kept in order,
\* so the queue never grows past the bound.
PushDropsWhenFull ==
    /\ [](Len(frames_queue) <= MaxFramesQueue)
    /\ [](pushes < MaxPushes /\ wpc = "recv" => ENABLED ClientAudio)
    /\ [][pushes' # pushes =>
             IF Len(frames_queue) = MaxFramesQueue
             THEN /\ frames_queue' = frames_queue
                  /\ dropped_frames' = dropped_frames \cup {pushes'}
             ELSE /\ Len(frames_queue') = Len(frames_queue) + 1
                  /\ SubSeq(frames_queue', 1, Len(frames_queue)) = frames_queue
                  /\ frames_queue'[Len(frames_queue')].n = pushes'
                  /\ dropped_frames' = dropped_frames]_vars
    /\ [](\A i \in DOMAIN frames_queue : \A j \in DOMAIN frames_queue :
              i < j => frames_queue[i].n < frames_queue[j].n)

\* a frame arrived at a full queue and was dropped; the two queued stayed
PushDroppedWitness ==
    /\ Len(frames_queue) = MaxFramesQueue
    /\ dropped_frames # {}
    /\ \A i \in DOMAIN frames_queue : frames_queue[i].n \notin dropped_frames
    /\ \E i \in DOMAIN frames_queue :
           \E d \in dropped_frames : frames_queue[i].n < d

(* ---- one connection whose client may send exit commands ---- *)
InitExit ==
    /\ max_conversation_history = MaxHistoryTurns
    /\ speech_interrupt_enabled = TRUE
    /\ provider_deltas = { <<"TEXT", <<"a">> >> }
    /\ callers = {}
    /\ \E on_exit_request \in BOOLEAN : StartedSession(on_exit_request, "recv")

NextExit ==
    \/ ClientCommand
    \/ QuitDrain
    \/ QuitStop
    \/ Disconnect
    \/ BrainStart
    \/ BrainDelta
    \/ BrainInterrupted
    \/ BrainStreamEnd
    \/ BrainEnded

SpecExit == InitExit /\ [][NextExit]_vars

\* the same with the speech path of the session
NextExitSession ==
    \/ NextExit
    \/ TTSGet
    \/ TTSClear
    \/ TTSYield
    \/ TTSInterrupted
    \/ TTSPut
    \/ TTSStreamEnd
    \/ TTSEndMarker
    \/ SinkChunk
    \/ SinkStreamEnd

SpecExitSession == InitExit /\ [][NextExitSession]_vars

\* what process_input did for the n-th text received
ExitStepsOf(n) ==
    LET OfInput(e) == e.input = n
        sel == SelectSeq(exit_trace, OfInput)
    IN  [ k \in DOMAIN sel |-> sel[k].did ]

\* C22: client text "quit" or "exit" is handled before enqueuing: the
\* speaker is interrupted, the shutdown flag is set and the on-exit callback
\* (when the assistant has one) is invoked, each exactly once, and no
\* BrainInputEvent carries that text.
ExitCommandHandled ==
    /\ \A n \in DOMAIN received :
          (received[n] \in ExitCommands
              /\ (n < Len(received) \/ wpc \in {"recv", "closed"})) =>
             /\ ExitStepsOf(n) =
                    <<"interrupt", "stop">> \o
                    (IF has_on_exit THEN <<"on_exit">> ELSE <<>>)
             /\ shutdown
    /\ \A j \in DOMAIN brain_input_queue :
          brain_input_queue[j].text \notin ExitCommands
    /\ \A j \in DOMAIN history_log :
          \A text \in ExitCommands : history_log[j].content # <<text>>

\* "quit" arrived during a turn and its handling has returned
ExitCommandWitness ==
    /\ Len(received) = 2 /\ received[2] = "quit"
    /\ wpc = "recv" /\ has_on_exit
    /\ ExitStepsOf(2) = <<"interrupt", "stop", "on_exit">>
    /\ outcomes = <<"interrupted">>

(* ---- the server's connection, its handlers and workers kept running ---- *)
QuitStep == QuitDrain \/ QuitStop

SpecExitSessionFair ==
    /\ InitAudio /\ [][NextExitSession]_vars
    /\ WF_vars(QuitStep)
    /\ WF_vars(BrainStep) /\ WF_vars(TTSStep) /\ WF_vars(SinkStep)

\* process_input has returned from handling a "quit"
QuitHandled ==
    /\ wpc = "recv"
    /\ \E n \in DOMAIN received : received[n] = "quit"

\* C23: after the client sends input "quit" the session is torn down (its
\* workers exit) and the registry has no entry for the session id any more;
\* client sends that follow start nothing.
QuitTearsSessionDown ==
    /\ QuitHandled ~> (~in_registry /\ BrainExited /\ TTSExited)
    /\ [][QuitHandled => turn' = turn]_vars

(* ---- a client that also sends bad text frames ---- *)
NextBadInput ==
    \/ ClientBadMessage
    \/ ClientInputTurn
    \/ BrainStart
    \/ BrainDelta
    \/ BrainStreamEnd
    \/ BrainEnded

SpecBadInput == InitBrain /\ [][NextBadInput]_vars

\* C24: a bad client message (malformed JSON, unknown message type, unknown
\* signal) is dropped without further effect: the connection and its
\* session stay up, so the next well-formed message is processed normally.
BadMessageDropped ==
    [][bad_msgs' # bad_msgs =>
          /\ wpc' = wpc
          /\ shutdown' = shutdown
          /\ in_registry' = in_registry
          /\ brain_input_queue' = brain_input_queue
          /\ interrupt_event' = interrupt_event]_vars

(* ===================== websocket send side ============================ *)
\* variant: the endpoint enters its receive loop without sending ready
SendReadySkipped ==
    /\ wpc = "accept"
    /\ wpc' = "recv"
    /\ UNCHANGED <<cfgVars, interrupt_event, brain_input_queue,
                   audio_output_queue, audio_chunk_queue, ui_queue, shutdown,
                   brainVars, ttsVars, inputs, triggers, percVars, brainHist,
                   audioHist, trigHist, percHist, ttsHist, history_log,
                   bargeHist, regVars, toolVars, segVars, ingestVars, connVars,
                   readies, ui_sent, bad_msgs>>

\* websocket_endpoint after accept(): the assistant and the display task
\* exist; signal/ready is sent and the receive loop is entered
SendReady ==
    /\ wpc = "accept"
    /\ readies' = readies + 1
    /\ wpc' = "recv"
    /\ UNCHANGED <<cfgVars, interrupt_event, brain_input_queue,
                   audio_output_queue, audio_chunk_queue, ui_queue, shutdown,
                   brainVars, ttsVars, inputs, triggers, percVars, brainHist,
                   audioHist, trigHist, percHist, ttsHist, history_log,
                   bargeHist, regVars, toolVars, segVars, ingestVars, connVars,
                   ui_sent, bad_msgs>>

\* pipe_display_messages: the next message of the UI queue is sent as a
\* text frame; the task runs whenever the endpoint coroutine is suspended
PipeDisplay ==
    /\ wpc \in {"accept", "recv"}
    /\ ui_sent < Len(ui_queue)
    /\ ui_sent' = ui_sent + 1
    /\ UNCHANGED <<pipeVars, regVars, toolVars, segVars, ingestVars, connVars,
                   readies, bad_msgs>>

InitConnection ==
    /\ max_conversation_history = MaxHistoryTurns
    /\ speech_interrupt_enabled = TRUE
    /\ provider_deltas = { <<"TEXT", <<"a">> >> }
    /\ callers = {}
    /\ StartedSession(FALSE, "accept")

NextConnection ==
    \/ SendReady
    \/ PipeDisplay
    \/ ClientInputTurn
    \/ BrainStart
    \/ BrainDelta
    \/ BrainStreamEnd
    \/ BrainEnded
    \/ TTSGet
    \/ TTSClear
    \/ TTSYield
    \/ TTSPut
    \/ TTSStreamEnd
    \/ TTSEndMarker
    \/ SinkChunk
    \/ SinkStreamEnd

SpecConnection == InitConnection /\ [][NextConnection]_vars

\* text frames and binary frames the server has sent besides ready
OtherSends == ui_sent + Len(client_pcm) + Len(tts_ended)

\* C25: after accept the first message the server sends is signal/ready,
\* before any transcript, text, update, other signal or PCM frame, and
\* exactly one ready is sent on the connection.
ReadyIsFirstAndOnce ==
    /\ readies <= 1
    /\ wpc # "accept" => readies = 1
    /\ OtherSends > 0 => readies = 1

ReadyWitness ==
    /\ readies = 1
    /\ ui_sent > 0
    /\ client_pcm # <<>>
    /\ tts_ended # <<>>

\* C26: for a turn that produces speech, the client receives
\* signal/processing_ended of that turn before the first PCM chunk of the
\* turn's speech: whenever a chunk of turn n is sent, processing_ended of
\* the turn has already been piped.
EndedBeforeSpeech ==
    [][\A n \in 1..MaxTurns :
          (/\ Len(client_pcm') > Len(client_pcm)
           /\ client_pcm'[Len(client_pcm')].req = n)
          => \E i \in EndedAt(AssistantId(n)) : i <= ui_sent]_vars

(* ---- several turns, spoken, with client interrupts ---- *)
NextBarge ==
    \/ ClientInputTurn
    \/ ClientInterrupt
    \/ ClientInterruptDrain
    \/ BrainStart
    \/ BrainDelta
    \/ BrainInterrupted
    \/ BrainStreamEnd
    \/ BrainEnded
    \/ TTSGet
    \/ TTSClear
    \/ TTSYield
    \/ TTSInterrupted
    \/ TTSPut
    \/ TTSStreamEnd
    \/ TTSEndMarker
    \/ SinkChunk
    \/ SinkStreamEnd

SpecBarge == InitAudio /\ [][NextBarge]_vars

\* the entry of the UI queue just before processing_ended of turn n is the
\* final empty DisplayMessage with the assistant id
EndsWithFinal(n) ==
    \A i \in EndedAt(AssistantId(n)) :
        /\ i > 1
        /\ ui_queue[i - 1] =
               DisplayMessage(<<>>, FALSE, AssistantId(n), TRUE, "TEXT")

\* C27: with barge-in enabled, once an interrupt trigger has fired during a
\* turn no later delta of the provider is put on the UI queue for that
\* turn, and the turn ends with the final empty DisplayMessage followed by
\* processing_ended, whatever the TTS worker does meanwhile.
NoDeltaAfterTrigger ==
    /\ [](\A n \in 1..MaxTurns : EndsWithFinal(n))
    /\ [][(speech_interrupt_enabled /\ trig_in_turn /\ bpc = "stream")
              => ndeltas' = ndeltas]_vars

\* requests whose chunks the TTS worker was streaming when a trigger fired
HitStreaming == { h.req : h \in { g \in hit_reqs : g.at = "streaming" } }

\* C28: if an interrupt trigger fires while the TTS worker is streaming a
\* request, the worker pushes no chunk of that request that the provider
\* produces after the trigger (and then pushes the end marker), whatever
\* the brain does meanwhile.
NoChunkAfterTrigger ==
    [][(tpc = "gen" /\ item.turn \in HitStreaming) => tpc' # "put"]_vars

\* requests that were enqueued but not yet streaming when a trigger fired
HitPending == { h.req : h \in { g \in hit_reqs : g.at = "pending" } }

\* C29: the interrupt action is atomic with respect to the TTS worker: a
\* TTSRequest enqueued before a trigger is discarded by the drain or
\* stopped by the flag, so once the trigger has completed the worker
\* accepts no chunk of it for the audio-chunk queue, even when it dequeues
\* the request while the trigger is running.
InterruptAtomicForTTS ==
    [][(wpc # "drain" /\ tpc = "gen" /\ item.turn \in HitPending)
          => tpc' # "put"]_vars

\* requests that were queued or in the worker's hands when a trigger fired
HitAny == { h.req : h \in hit_reqs }

PushedOf(r) == { c \in Range(chunk_pushed) : c.req = r /\ ~c.end }

\* C30: a flag left set by an earlier trigger never suppresses later
\* output: a TTSRequest that no trigger found queued or being processed
\* is streamed with the flag clear, is not ended as interrupted, and
\* every chunk its stream has produced is pushed to the audio-chunk queue.
StaleFlagNeverSuppresses ==
    /\ (tpc \in {"gen", "put"} /\ item.turn \notin HitAny) => ~interrupt_event
    /\ (tpc = "end" /\ item.turn \notin HitAny)
          => tts_how[Len(tts_how)] = [req |-> item.turn, how |-> "normal"]
    /\ (tpc \in {"gen", "put", "end"} /\ item.turn \notin HitAny)
          => Cardinality(PushedOf(item.turn)) = chunk_count

\* a request put while the flag of an earlier trigger was still set has
\* been streamed to its normal end with all its chunks
StaleFlagWitness ==
    /\ tpc = "end"
    /\ item.turn \notin HitAny
    /\ \E i \in DOMAIN audio_out_puts :
          audio_out_puts[i].turn = item.turn /\ audio_out_puts[i].after_trigger
    /\ tts_how[Len(tts_how)] = [req |-> item.turn, how |-> "normal"]
    /\ Cardinality(PushedOf(item.turn)) = MaxChunks

(* ---- the history over an interrupted turn ---- *)
\* a step of a turn that is not the normal end of its stream
StepOfUnfinishedTurn ==
    /\ bpc # "idle"
    /\ \/ outcomes' = outcomes
       \/ outcomes' = Append(outcomes, "interrupted")

\* C31: an interrupted turn leaves no record of its partial assistant text
\* in the conversation history: from the user record appended at the start
\* of the turn up to processing_ended the history does not change.
InterruptedTurnKeepsHistory ==
    [][StepOfUnfinishedTurn => conversation_history' = conversation_history]_vars

\* an interrupted turn that had accumulated text is over
InterruptedTurnWitness ==
    /\ turn > 0 /\ bpc = "idle"
    /\ Len(outcomes) = turn /\ outcomes[turn] = "interrupted"
    /\ full_response_text # <<>>
    /\ conversation_history[Len(conversation_history)].role = "user"

(* ---- the assistant block of a turn on the UI queue ---- *)
\* the brain's DisplayMessages other than the apology of the error path
BrainBlockAt ==
    { i \in DOMAIN ui_queue :
        /\ ui_queue[i].kind = "display" /\ ~ui_queue[i].is_user
        /\ ui_queue[i].msg_id \notin { BrainErrId(n) : n \in 1..turn } }

\* C32: every DisplayMessage the brain emits for a turn's deltas and for
\* its normal or interrupted final carries the id announced in that turn's
\* processing_started; all of them lie after processing_started and before
\* processing_ended of the turn, the final last, and the deltas in the
\* order the provider yielded them.
BlockCarriesTurnId ==
    /\ \A i \in BrainBlockAt :
          \E n \in 1..turn :
             /\ ui_queue[i].msg_id = AssistantId(n)
             /\ \E b \in StartedAt(AssistantId(n)) :
                   /\ b < i
                   /\ \A k \in (b + 1)..(i - 1) :
                          /\ ui_queue[k].kind # "signal"
                          /\ ui_queue[k].msg_id = AssistantId(n)
                                 => ~ui_queue[k].is_final
             /\ \A e \in EndedAt(AssistantId(n)) : i < e
    /\ bpc = "stream" => TextDeltasOf(turn) = full_response_text

\* a turn with two different text deltas, closed normally
BlockWitness ==
    /\ bpc = "idle" /\ turn >= 1 /\ outcomes[turn] = "normal"
    /\ TextDeltasOf(turn) = <<"b", "a">>
    /\ \E i \in BrainBlockAt :
          ui_queue[i].is_final /\ ui_queue[i].msg_id = AssistantId(turn)

(* ---- perception's suppression rule ---- *)
\* the step puts a DisplayMessage of the user on the UI queue
UserPut ==
    /\ Len(ui_queue') = Len(ui_queue) + 1
    /\ ui_queue'[Len(ui_queue')].kind = "display"
    /\ ui_queue'[Len(ui_queue')].is_user

\* the step puts a BrainInputEvent with the text of an endpoint
EndpointPut == Len(brain_input_queue') = Len(brain_input_queue) + 1

\* texts already put on the UI queue for the utterance in progress
EmittedAt ==
    { i \in DOMAIN ui_queue :
        current_msg_id # NoId /\ ui_queue[i].msg_id = current_msg_id }

\* an endpoint with non-empty text puts a final DisplayMessage with that
\* text, whatever was emitted before
EndpointAlwaysEmitted ==
    EndpointPut =>
        /\ UserPut
        /\ ui_queue'[Len(ui_queue')].is_final
        /\ ui_queue'[Len(ui_queue')].text =
               <<brain_input_queue'[Len(brain_input_queue')].text>>

EndpointStep == utterance' = utterance + 1

\* the step ends the handling of the frame f that fired the barge-in
CallbackFrameHandled(f) == ppc = "callback" /\ ppc' = "idle" /\ frame = f

FinalsEmitted ==
    { i \in DOMAIN ui_queue : ui_queue[i].is_user /\ ui_queue[i].is_final }

\* C34: perception puts exactly one BrainInputEvent of kind AUDIO, with
\* the endpoint's text, for each endpoint whose text is non-empty, and
\* none for a partial or for an endpoint with empty text; after every
\* endpoint the last-text, barge-in-fired and message-id state are reset.
OneEventPerEndpoint ==
    /\ [][/\ EndpointPut =>
                /\ EndpointStep
                /\ brain_input_queue'[Len(brain_input_queue')].type = "AUDIO"
          /\ (EndpointStep /\ UserPut) => EndpointPut
          /\ brain_input_queue' = brain_input_queue \/ EndpointPut
          /\ \A f \in [text : AsrTexts, is_final : BOOLEAN] :
                CallbackFrameHandled(f) =>
                   IF f.is_final /\ f.text # ""
                   THEN brain_input_queue' =
                            Append(brain_input_queue,
                                   BrainInputEvent("AUDIO", f.text))
                   ELSE brain_input_queue' = brain_input_queue
          /\ EndpointStep =>
                /\ last_text' = ""
                /\ ~interrupt_fired_for_current'
                /\ current_msg_id' = NoId]_vars
    /\ [](Len(brain_input_queue) = Cardinality(FinalsEmitted))

\* two endpoints with text have been handed over, and one without
EndpointWitness ==
    /\ Len(brain_input_queue) = 2
    /\ utterance > 2
    /\ last_text = "" /\ current_msg_id = NoId

(* ---- turns whose provider stream runs the tool loop ---- *)
InitToolTurn ==
    /\ max_conversation_history = MaxHistoryTurns
    /\ speech_interrupt_enabled = TRUE
    /\ provider_deltas = { <<"TEXT", <<"a">> >> }
    /\ callers = {}
    /\ StartedSessionWith(FALSE, "recv", "closed")

\* the brain's steps, each at the place of the generator where it happens
StreamDelta == lpc \in {"create", "tools"} /\ BrainDelta
StreamExhausted == lpc = "done" /\ BrainStreamEnd
TurnEnded == lpc = "closed" /\ BrainEnded

NextToolTurn ==
    \/ ClientInputTurn
    \/ BrainStart
    \/ ChatStreamCall
    \/ LLMCreate
    \/ LLMExecuteTool
    \/ StreamDelta
    \/ StreamExhausted
    \/ ChatStreamClose
    \/ TurnEnded

SpecToolTurn == InitToolTurn /\ [][NextToolTurn]_vars

HasToolRecords ==
    /\ \E i \in DOMAIN conversation_history :
          conversation_history[i].role = "tool"
    /\ \E i \in DOMAIN conversation_history :
          /\ conversation_history[i].role = "assistant"
          /\ "tool_calls" \in DOMAIN conversation_history[i]

\* C35: when a provider stream ends with pending tool calls, each call is
\* executed and the brain's conversation history is extended with an
\* assistant record holding the tool-call descriptors and one tool-role
\* record per result; the provider is re-invoked with the extended
\* history, and the records remain in the history for later turns.
ToolRecordsKeptInHistory ==
    /\ [][Len(tool_runs') > Len(tool_runs)
             => working_messages'[Len(working_messages')].role = "tool"]_vars
    /\ []((bpc = "idle" /\ turn >= 1 /\ tool_runs # <<>>) => HasToolRecords)

(* ---- the tool loop with a provider that may always ask for more ---- *)
NextToolLoop ==
    \/ LLMCreate
    \/ LLMExecuteTool
    \/ LLMCreatePast
    \/ LLMExecutePast

SpecToolLoop == Init /\ [][NextToolLoop]_vars

SpecToolLoopFair == SpecToolLoop /\ WF_vars(NextToolLoop)

\* C36: the tool loop of a turn terminates: it is left at the first
\* provider stream that ends without pending tool calls, and the number of
\* provider invocations in one turn is bounded, so a provider that ends
\* every stream with pending tool calls cannot keep the brain in the turn
\* forever.
ToolLoopTerminates ==
    /\ [][(lpc = "create" /\ tool_calls_data' = <<>>) => lpc' = "done"]_vars
    /\ <>(lpc = "done")

(* ------------- the brain fed with blank and non-blank inputs ----------- *)
BlankTexts == {"", " "}

\* {type: "input"} with an empty or whitespace-only content: process_input
\* puts the event as it is
ClientInputBlank ==
    /\ wpc = "recv" /\ ~shutdown /\ inputs < MaxTurns
    /\ \E text \in BlankTexts :
           brain_input_queue' = Append(brain_input_queue, BrainInputEvent("TEXT", text))
    /\ inputs' = inputs + 1
    /\ UNCHANGED <<cfgVars, interrupt_event, audio_output_queue,
                   audio_chunk_queue, ui_queue, shutdown, brainVars, ttsVars,
                   wpc, triggers, percVars, brainHist, audioHist, trigHist,
                   percHist,
                   ttsHist, history_log, bargeHist, regVars, toolVars, ioVars>>

NextBlank ==
    \/ ClientInputTurn
    \/ ClientInputBlank
    \/ ClientInterrupt
    \/ ClientInterruptDrain
    \/ BrainSkipBlank
    \/ BrainStart
    \/ BrainDelta
    \/ BrainInterrupted
    \/ BrainStreamEnd
    \/ BrainError
    \/ BrainEnded

SpecBlank == InitAudio /\ [][NextBlank]_vars

\* the brain thread takes an event whose text is blank
BlankEventHandled ==
    /\ bpc = "idle"
    /\ brain_input_queue # <<>>
    /\ IsBlank(Head(brain_input_queue).text)
    /\ brain_input_queue' = Tail(brain_input_queue)

\* C37: a BrainInputEvent whose text is empty or whitespace-only changes
\* nothing: no signal or DisplayMessage is emitted, the conversation history
\* is unchanged, no TTSRequest is enqueued, and the interrupt flag is not
\* cleared.
BlankEventChangesNothing ==
    [][BlankEventHandled =>
         /\ ui_queue' = ui_queue
         /\ conversation_history' = conversation_history
         /\ audio_output_queue' = audio_output_queue
         /\ interrupt_event' = interrupt_event
         /\ bpc' = "idle"
         /\ turn' = turn]_vars

\* the only input so far was blank, it has been taken while the interrupt
\* flag was set, and the flag is still set
BlankEventWitness ==
    /\ inputs = 1 /\ brain_input_queue = <<>> /\ turn = 0 /\ bpc = "idle"
    /\ triggers = 1 /\ interrupt_event

(* ========================= UtteranceSegmenter ========================== *)
\* utterances are numbered in production order; while handle is past its
\* first put, the utterance it holds is number `produced`

\* variant: a full queue makes room by discarding its newest utterance
SegmenterEvictNewest ==
    /\ spc = "full"
    /\ IF utterance_queue # <<>>
       THEN /\ utterance_queue' =
                   SubSeq(utterance_queue, 1, Len(utterance_queue) - 1)
            /\ seg_dropped' = seg_dropped \cup
                   {utterance_queue[Len(utterance_queue)]}
            /\ spc' = "evicted"
       ELSE /\ UNCHANGED <<utterance_queue, seg_dropped>>
            /\ spc' = "empty"
    /\ UNCHANGED <<pipeVars, regVars, toolVars, ingestVars, connVars,
                   wireVars, produced, seg_taken>>

\* handle on END_SPEECH: utterance_queue.put_nowait(utterance), which
\* raises queue.Full when the queue is at its maxsize
SegmenterPut ==
    /\ spc = "idle" /\ produced < MaxUtterances
    /\ produced' = produced + 1
    /\ IF Len(utterance_queue) < MaxUtteranceQueue
       THEN /\ utterance_queue' = Append(utterance_queue, produced + 1)
            /\ spc' = "idle"
       ELSE /\ utterance_queue' = utterance_queue
            /\ spc' = "full"
    /\ UNCHANGED <<pipeVars, regVars, toolVars, ingestVars, connVars,
                   wireVars, seg_dropped, seg_taken>>

\* except queue.Full: utterance_queue.get_nowait(), which raises
\* queue.Empty when the consumer has emptied the queue meanwhile
SegmenterEvict ==
    /\ spc = "full"
    /\ IF utterance_queue # <<>>
       THEN /\ utterance_queue' = Tail(utterance_queue)
            /\ seg_dropped' = seg_dropped \cup {Head(utterance_queue)}
            /\ spc' = "evicted"
       ELSE /\ UNCHANGED <<utterance_queue, seg_dropped>>
            /\ spc' = "empty"
    /\ UNCHANGED <<pipeVars, regVars, toolVars, ingestVars, connVars,
                   wireVars, produced, seg_taken>>

\* the put_nowait after get_nowait, whether that returned the oldest
\* utterance or raised queue.Empty; a queue.Full here is not caught
SegmenterReput ==
    /\ spc \in {"evicted", "empty"}
    /\ IF Len(utterance_queue) < MaxUtteranceQueue
       THEN /\ utterance_queue' = Append(utterance_queue, produced)
            /\ spc' = "idle"
       ELSE /\ utterance_queue' = utterance_queue
            /\ spc' = "raised"
    /\ UNCHANGED <<pipeVars, regVars, toolVars, ingestVars, connVars,
                   wireVars, produced, seg_dropped, seg_taken>>

\* QueueWorker.run of the Perception thread: utterance_queue.get(timeout)
UtteranceGet ==
    /\ utterance_queue # <<>>
    /\ utterance_queue' = Tail(utterance_queue)
    /\ seg_taken' = Append(seg_taken, Head(utterance_queue))
    /\ UNCHANGED <<pipeVars, regVars, toolVars, ingestVars, connVars,
                   wireVars, spc, produced, seg_dropped>>

NextSegmenter ==
    \/ SegmenterPut
    \/ SegmenterEvict
    \/ SegmenterReput
    \/ UtteranceGet

SpecSegmenter == InitAudio /\ [][NextSegmenter]_vars

\* the number of the utterance put last
LastPut == IF spc = "idle" THEN produced ELSE produced - 1

\* C38: a bounded queue with the drop-oldest policy never exceeds its
\* maximum size, and after sustained overproduction it holds the most
\* recently produced utterances in production order, the evicted ones being
\* the oldest, also when a consumer removes utterances concurrently with the
\* producer's evict-and-insert step.
DropOldestKeepsNewest ==
    /\ [](Len(utterance_queue) <= MaxUtteranceQueue)
    /\ [](spc \in {"idle", "full", "evicted", "empty"})
    \* the queue is the run of utterances that ends with the newest one put
    /\ [](\A i \in DOMAIN utterance_queue :
              utterance_queue[i] = LastPut - Len(utterance_queue) + i)
    \* every utterance put is queued, taken or evicted, and only one of these
    /\ [](/\ Range(utterance_queue) \cup Range(seg_taken) \cup seg_dropped
                 = 1..LastPut
          /\ Range(utterance_queue) \cap seg_dropped = {}
          /\ Range(seg_taken) \cap seg_dropped = {}
          /\ Range(utterance_queue) \cap Range(seg_taken) = {})
    \* what is evicted is older than everything the queue holds
    /\ [](\A d \in seg_dropped : \A i \in DOMAIN utterance_queue :
              d < utterance_queue[i])
    /\ [][seg_dropped' # seg_dropped =>
             /\ utterance_queue # <<>>
             /\ seg_dropped' = seg_dropped \cup {Head(utterance_queue)}
             /\ utterance_queue' = Tail(utterance_queue)]_vars
    \* without a consumer, overproduction leaves the newest maxsize ones
    /\ [](seg_taken = <<>> /\ spc = "idle" /\ produced >= MaxUtteranceQueue
             => utterance_queue =
                    [i \in 1..MaxUtteranceQueue |->
                         produced - MaxUtteranceQueue + i])

\* the queue was full when utterance maxsize + 1 arrived, the consumer took
\* utterance 1 before the segmenter's get_nowait, which then evicted
\* utterance 2, and the new utterance was put
DropOldestWitness ==
    /\ spc = "idle" /\ produced = MaxUtteranceQueue + 1
    /\ seg_taken = <<1>> /\ seg_dropped = {2}
    /\ utterance_queue # <<>>
    /\ utterance_queue[Len(utterance_queue)] = produced

(* ------- connections of websocket_endpoint that share the registry ----- *)
\* a connection is open from its create_assistant call to the end of the
\* close_session call in its finally clause; each of the two calls runs on
\* the event loop without an await, so no other connection runs inside it
ConnOpen(t) == calls[t] % 2 = 1
NoCallRunning == \A u \in callers : rpc[u] = "idle"

\* websocket_endpoint: session_manager.create_assistant(session_id, ...)
ConnCreate(t, id) ==
    /\ NoCallRunning /\ ~ConnOpen(t)
    /\ RegCreateCall(t, id)

\* finally: session_manager.close_session(session_id)
ConnCleanup(t) ==
    /\ NoCallRunning /\ ConnOpen(t)
    /\ RegCloseCall(t, rid[t])

NextEndpoints ==
    \E t \in callers :
        \/ \E id \in SessionIds : ConnCreate(t, id)
        \/ RegCreateCheck(t)
        \/ RegCreateRegister(t)
        \/ RegStartWorker(t)
        \/ ConnCleanup(t)
        \/ RegPop(t)
        \/ RegStop(t)
        \/ RegJoin(t)
        \/ RegReturn(t)

SpecEndpoints == InitRegistry /\ [][NextEndpoints]_vars

\* no open connection was given a later session for the id of t
LatestFor(t) ==
    \A u \in callers \ {t} :
        ~(ConnOpen(u) /\ rid[u] = rid[t] /\ rh[u] > rh[t])

\* C39: when a second connection reuses a session id that is still live,
\* the cleanup that runs when the first connection later ends does not tear
\* down or remove the session that was created for the second connection.
CleanupSparesNewerSession ==
    \A t \in callers :
        NoCallRunning /\ ConnOpen(t) /\ LatestFor(t)
            => /\ sessions[rid[t]] = rh[t]
               /\ ~sess[rh[t]].shutdown

(* ------------- PCM delivery of requests nothing interrupts ------------- *)
IsPcm(c) == ~c.end
OfRequest(s, r) == SelectSeq(s, LAMBDA c : c.req = r)
IsPrefixOf(s, t) == Len(s) <= Len(t) /\ s = SubSeq(t, 1, Len(s))

\* the PCM chunks the worker put, in the order the provider yielded them
PcmPushed == SelectSeq(chunk_pushed, IsPcm)
\* the requests whose end marker the worker put, in that order
EndsPushed == [i \in DOMAIN SelectSeq(chunk_pushed, LAMBDA c : c.end) |->
                   SelectSeq(chunk_pushed, LAMBDA c : c.end)[i].req]

\* C40: for a TTS request during which no interrupt fires, the client
\* receives exactly the PCM chunks the provider produced, in production
\* order with none lost, duplicated or reordered, and the tts_ended for that
\* request is sent after its last chunk and before any chunk of the next
\* request.
PcmDeliveredInOrder ==
    \* what was sent is what was produced, in the same order
    /\ [](IsPrefixOf(client_pcm, PcmPushed))
    /\ [](IsPrefixOf(tts_ended, EndsPushed))
    /\ [](audio_chunk_queue = <<>> =>
              client_pcm = PcmPushed /\ tts_ended = EndsPushed)
    \* the chunks of a request are the provider's chunks 1, 2, ...
    /\ [](\A r \in 1..MaxTurns :
              \A i \in DOMAIN OfRequest(PcmPushed, r) :
                  OfRequest(PcmPushed, r)[i] = Chunk(r, i))
    \* tts_ended of r is sent when all chunks of r and no later chunk are
    /\ [][Len(tts_ended') > Len(tts_ended) =>
             LET r == tts_ended'[Len(tts_ended')]
             IN  /\ OfRequest(client_pcm, r) = OfRequest(PcmPushed, r)
                 /\ \A c \in Range(client_pcm) : c.req \in Range(tts_ended')]_vars
    \* a chunk is sent before the tts_ended of its request and after the
    \* tts_ended of every request whose chunks were sent before
    /\ [][Len(client_pcm') > Len(client_pcm) =>
             LET c == client_pcm'[Len(client_pcm')]
             IN  /\ c.req \notin Range(tts_ended)
                 /\ \A d \in Range(client_pcm) :
                        d.req = c.req \/ d.req \in Range(tts_ended)]_vars

\* two requests were served: the client got the chunks of both, each request
\* with more than one chunk in all, and both tts_ended signals
PcmDeliveredWitness ==
    /\ tts_ended = <<1, 2>>
    /\ Len(OfRequest(client_pcm, 1)) = MaxChunks
    /\ Len(OfRequest(client_pcm, 2)) = MaxChunks
    /\ audio_chunk_queue = <<>>
====
